---- MODULE Spec2Model ----
(***************************************************************************)
(* Multi-LLM extraction and consensus pipeline of src/src/modules/llm:     *)
(* LLMProviderManager, SentimentAnalyzer and the MultiLLMAnalyzer          *)
(* orchestrator, modelled as a state machine.                              *)
(*                                                                         *)
(* Strings of the program (brand names, source names, URLs, labels of a    *)
(* sentiment reply) are sequences of one-character strings, so that        *)
(* lower-casing, substring tests and word splitting are computed as the    *)
(* code computes them.  In a URL or a brand name a run of letters and      *)
(* digits that no operation splits is one element of the sequence (a       *)
(* word), as is the "https://" prefix; blanks and punctuation are single   *)
(* characters.  Python dicts are functions; their insertion order is kept  *)
(* where the code iterates over it.                                        *)
(***************************************************************************)
EXTENDS Integers, Sequences, FiniteSets, TLC

VARIABLES
    pc,                  \* position inside analyser_question_multi_llm
    question,            \* the question handed to analyser_question_multi_llm
    statistiques,        \* resultats['statistiques']
    available_providers, \* LLMProviderManager.available_providers (keys)
    issues,              \* what the network did to each initial query
    reponses,            \* resultats['reponses_brutes']
    providers_utilises,  \* resultats['providers_utilises'] (a list)
    marques_detectees,   \* resultats['marques_detectees']
    sources_extraites,   \* resultats['sources_extraites']
    sentiment_marques,   \* resultats['sentiment_marques']
    sentiment_sources,   \* resultats['sentiment_sources']
    sentiment_recu,      \* per provider, the branch analyser_sentiment_batch took
    rapport_consolide,   \* resultats['rapport_consolide']
    erreur_critique,     \* 'erreur_critique' in resultats
    retour,              \* what analyser_question_multi_llm returned
    votes,               \* argument of calculer_sentiment_majoritaire (ordered dict)
    majoritaire,         \* its result
    normalisation,       \* a string and what the normalisation functions make of it
    cascade,             \* the locals of one call of extraire_urls_depuis_reponse
    consolidation,       \* per-provider entity lists and their consolidated view
    etude,               \* the responses of one extract_sources_multi_llm call
    envois,              \* the prompts one run sends to each provider
    invocation,          \* one call of a function: its arguments and its result
    case_studies_dir     \* the JSON files of CaseStudyManager and the last answers

vars == <<pc, question, statistiques, available_providers, issues, reponses,
          providers_utilises, marques_detectees, sources_extraites,
          sentiment_marques, sentiment_sources, sentiment_recu,
          rapport_consolide, erreur_critique, retour, votes, majoritaire,
          normalisation, cascade, consolidation, etude,
          envois, invocation, case_studies_dir>>

varsRun == <<pc, question, statistiques, available_providers, issues, reponses, providers_utilises,
             marques_detectees, sources_extraites, sentiment_marques,
             sentiment_sources, sentiment_recu, rapport_consolide,
             erreur_critique, retour>>

varsVote == <<votes, majoritaire>>

\* the state of the functions that are checked outside a run of the orchestrator
varsAutres == <<envois, invocation, case_studies_dir>>

varsFonctions == <<normalisation, cascade, consolidation, etude, varsAutres>>

\* the value of a variable that the specification at hand does not use
Hors == "hors"

InitAutresOff ==
    /\ envois = Hors
    /\ invocation = Hors
    /\ case_studies_dir = Hors

InitFonctionsOff ==
    /\ normalisation = Hors
    /\ cascade = Hors
    /\ consolidation = Hors
    /\ etude = Hors
    /\ InitAutresOff

-----------------------------------------------------------------------------
(* Values *)

\* Python's None
None == "None"

\* LLMProviderManager.providers, in dict insertion order
ProviderOrder == <<"openai", "anthropic", "gemini">>

Providers == {ProviderOrder[i] : i \in 1..Len(ProviderOrder)}

\* the keys of compteur, in the insertion order of the dict literal
SentimentOrder == <<"positif", "neutre", "negatif">>

Sentiments == {SentimentOrder[i] : i \in 1..Len(SentimentOrder)}

\* a response text of a backend: the empty string or some text
Textes == {"", "txt"}

-----------------------------------------------------------------------------
(* Bounds of the model *)

\* backends holding an API key in one run (of the three the manager knows)
MaxDisponibles == 2

\* entries of the dict handed to calculer_sentiment_majoritaire
MaxVotes == 3

\* words and characters of a string handed to a normalisation function
MaxChaine == 4

-----------------------------------------------------------------------------
(* Strings *)

\* str.lower on one character, or on one word of a URL or of a brand name
LowerChar(c) ==
    CASE c = "B" -> "b"
      [] c = "S" -> "s"
      [] c = "X" -> "x"
      [] c = "A" -> "a"
      [] c = "Guide" -> "guide"
      [] c = "Hello" -> "hello"
      [] c = "Bank" -> "bank"
      [] c = "Source" -> "source"
      [] OTHER -> c

\* str.lower
Lower(s) == [i \in 1..Len(s) |-> LowerChar(s[i])]

\* Python's `a in b` on strings
IsSubstring(a, b) ==
    \E i \in 0..(Len(b) - Len(a)) : SubSeq(b, i + 1, i + Len(a)) = a

\* set(nom.split()): the words of a string, split on blanks
Mots(s) ==
    {SubSeq(s, i, j) : <<i, j>> \in
        {p \in (1..Len(s)) \X (1..Len(s)) :
            /\ p[1] <= p[2]
            /\ \A k \in p[1]..p[2] : s[k] # " "
            /\ (p[1] = 1 \/ s[p[1] - 1] = " ")
            /\ (p[2] = Len(s) \/ s[p[2] + 1] = " ")}}

\* str.startswith
StartsWith(s, prefixe) ==
    Len(s) >= Len(prefixe) /\ SubSeq(s, 1, Len(prefixe)) = prefixe

\* len() of a string whose elements are words and single characters
RECURSIVE Longueur(_)
Longueur(s) == IF s = <<>> THEN 0 ELSE Len(Head(s)) + Longueur(Tail(s))

\* str.lstrip(chars)
RECURSIVE LStrip(_, _)
LStrip(s, chars) ==
    IF s # <<>> /\ Head(s) \in chars THEN LStrip(Tail(s), chars) ELSE s

\* str.rstrip(chars)
RECURSIVE RStrip(_, _)
RStrip(s, chars) ==
    IF s # <<>> /\ s[Len(s)] \in chars
    THEN RStrip(SubSeq(s, 1, Len(s) - 1), chars)
    ELSE s

\* str.strip(chars)
Strip(s, chars) == RStrip(LStrip(s, chars), chars)

\* the characters str.strip() removes
Blancs == {" "}

\* the first position of s that holds an element of S, Len(s) + 1 if none does
PremierIndice(s, S) ==
    IF \E i \in 1..Len(s) : s[i] \in S
    THEN CHOOSE i \in 1..Len(s) : s[i] \in S /\ \A j \in 1..(i - 1) : s[j] \notin S
    ELSE Len(s) + 1

\* the elements of s that are not in S, in their order
RECURSIVE Sans(_, _)
Sans(s, S) ==
    IF s = <<>> THEN <<>>
    ELSE IF Head(s) \in S THEN Sans(Tail(s), S)
    ELSE <<Head(s)>> \o Sans(Tail(s), S)

\* the lists over S holding at most one element
ListesCourtes(S) == {<<>>} \cup {<<x>> : x \in S}

-----------------------------------------------------------------------------
(* The subjects and replies the model draws from *)

\* brand names a response text can contain
MarquesUnivers == {[nom |-> <<"B", "x">>]}

\* sources a cascade can return: one whose name differs from its URL (the name
\* _extraire_nom_depuis_url derives from the domain), and one whose "Source:"
\* line repeats the URL
SourcesUnivers ==
    {[nom |-> <<"S", "a">>, url |-> <<"u", "1">>],
     [nom |-> <<"u", "2">>, url |-> <<"u", "2">>]}

\* a label no submitted subject matches
LabelInconnu == <<"z">>

\* the labels the blocks of a sentiment reply can carry, given the subjects the
\* prompt listed: a listed name (as the reply writes it, in lower case) or a
\* name that was not listed
Labels(entites) ==
    {Lower(entites[i].nom) : i \in 1..Len(entites)} \cup {LabelInconnu}

\* the "Sentiment:" line of a block, as the set of keyword families it contains
SentimentsBruts == {{"positif"}, {"negatif"}, {"positif", "negatif"}, {}}

\* the "Confiance:" line of a block (\d+)
ConfiancesBrutes == {85}

\* the parseable blocks a reply can hold about the listed subjects
Blocs(entites) ==
    [label : Labels(entites), sentiment : SentimentsBruts, confiance : ConfiancesBrutes]

\* what the network can do to one request
NetworkOutcomes == {"ok", "http_error", "timeout"}

\* the bodies a backend can give to the sentiment prompt: no text at all, or a
\* text holding some parseable blocks in each section
CorpsSentiment(marques, sources) ==
    {[statut |-> "vide", marques |-> <<>>, sources |-> <<>>]} \cup
    [statut : {"texte"},
     marques : ListesCourtes(Blocs(marques)),
     sources : ListesCourtes(Blocs(sources))]

\* a sentiment query that gave None
ReponseNone == [statut |-> "none", marques |-> <<>>, sources |-> <<>>]

\* a sentiment query that raised
ReponseRaise == [statut |-> "raise", marques |-> <<>>, sources |-> <<>>]

-----------------------------------------------------------------------------
(* llm_providers.py *)

\* a query that lets the exception of a timeout reach its caller
queryPropage(outcome, corps, none, raise) ==
    IF outcome = "ok" THEN corps
    ELSE IF outcome = "timeout" THEN raise
    ELSE none

\* OpenAIProvider.query, AnthropicProvider.query, GeminiProvider.query: the
\* body on HTTP 200, None on any other status and on any exception
query(outcome, corps, none, raise) ==
    IF outcome = "ok" THEN corps ELSE none

\* LLMProviderManager.query_provider
query_provider(available, provider_name, outcome, corps, none, raise) ==
    IF provider_name \in available
    THEN query(outcome, corps, none, raise)
    ELSE none

\* LLMProviderManager.query_all_providers: results[name] for every available
\* provider, None where the query raised
query_all_providers(available, outcomes, corps) ==
    [name \in available |->
        LET response == query(outcomes[name], corps[name], None, "raises")
        IN  IF response = "raises" THEN None ELSE response]

\* LLMProviderManager.has_available_providers
has_available_providers(available) == Cardinality(available) > 0

-----------------------------------------------------------------------------
(* sentiment_analyzer.py *)

\* a normalisation that leaves an unrecognised label outside the three labels
_normaliser_sentimentInconnu(sentiment_brut) ==
    IF "positif" \in sentiment_brut THEN "positif"
    ELSE IF "negatif" \in sentiment_brut THEN "negatif"
    ELSE "inconnu"

\* SentimentAnalyzer._normaliser_sentiment
_normaliser_sentiment(sentiment_brut) ==
    IF "positif" \in sentiment_brut THEN "positif"
    ELSE IF "negatif" \in sentiment_brut THEN "negatif"
    ELSE "neutre"

\* SentimentAnalyzer._normaliser_confiance
_normaliser_confiance(confiance_brut) ==
    IF confiance_brut > 100 THEN 100
    ELSE IF confiance_brut < 0 THEN 0
    ELSE confiance_brut

\* SentimentAnalyzer._similarite_noms, as <<intersection, union>>; <<0, 1>> is 0.0
_similarite_noms(nom1, nom2) ==
    LET mots1 == Mots(nom1)
        mots2 == Mots(nom2)
    IN  IF mots1 = {} \/ mots2 = {} THEN <<0, 1>>
        ELSE <<Cardinality(mots1 \cap mots2), Cardinality(mots1 \cup mots2)>>

\* the partial-match test of _trouver_entite_correspondante
CorrespondPartiel(nom_lower, nom_entite) ==
    \/ IsSubstring(nom_lower, nom_entite)
    \/ IsSubstring(nom_entite, nom_lower)
    \/ LET sim == _similarite_noms(nom_lower, nom_entite)
       IN  10 * sim[1] > 8 * sim[2]

\* SentimentAnalyzer._trouver_entite_correspondante: the index in entites of
\* the entity found, 0 for None
_trouver_entite_correspondante(nom_recherche, entites) ==
    LET nom_lower == Lower(nom_recherche)
        exacts == {i \in 1..Len(entites) : Lower(entites[i].nom) = nom_lower}
        partiels == {i \in 1..Len(entites) :
                        CorrespondPartiel(nom_lower, Lower(entites[i].nom))}
    IN  IF exacts # {} THEN CHOOSE i \in exacts : \A j \in exacts : i <= j
        ELSE IF partiels # {} THEN CHOOSE i \in partiels : \A j \in partiels : i <= j
        ELSE 0

\* the record _parser_sentiment_marques and _parser_sentiment_sources build
\* from one matched block
RecordParse(bloc) ==
    [sentiment |-> _normaliser_sentiment(bloc.sentiment),
     confiance |-> _normaliser_confiance(bloc.confiance),
     methode_analyse |-> "llm_specialise"]

\* sentiments[cle] = valeur on a dict
DictSet(d, cle, valeur) ==
    [k \in DOMAIN d \cup {cle} |-> IF k = cle THEN valeur ELSE d[k]]

\* the empty dict
DictVide == [k \in {} |-> None]

\* the loop of _parser_sentiment_marques / _parser_sentiment_sources over the
\* blocks the pattern finds, in order
RECURSIVE ParserBlocs(_, _, _)
ParserBlocs(blocs, entites, sentiments) ==
    IF blocs = <<>> THEN sentiments
    ELSE LET bloc == Head(blocs)
             i == _trouver_entite_correspondante(bloc.label, entites)
         IN  ParserBlocs(Tail(blocs), entites,
                 IF i # 0
                 THEN DictSet(sentiments, entites[i].nom, RecordParse(bloc))
                 ELSE sentiments)

\* SentimentAnalyzer._parser_sentiment_marques
_parser_sentiment_marques(blocs, marques) == ParserBlocs(blocs, marques, DictVide)

\* SentimentAnalyzer._parser_sentiment_sources
_parser_sentiment_sources(blocs, sources) == ParserBlocs(blocs, sources, DictVide)

\* SentimentAnalyzer._parser_sentiment_batch
_parser_sentiment_batch(reponse_llm, marques, sources) ==
    [marques |-> _parser_sentiment_marques(reponse_llm.marques, marques),
     sources |-> _parser_sentiment_sources(reponse_llm.sources, sources)]

\* the record of _generer_sentiments_fallback
RecordFallback ==
    [sentiment |-> "neutre", confiance |-> 30, methode_analyse |-> "fallback_basic"]

\* a fallback that gives its records the middle confidence
_generer_sentiments_fallbackMoyen(entites) ==
    [nom \in {entites[i].nom : i \in 1..Len(entites)} |->
        [sentiment |-> "neutre", confiance |-> 50, methode_analyse |-> "fallback_basic"]]

\* SentimentAnalyzer._generer_sentiments_fallback
_generer_sentiments_fallback(entites) ==
    [nom \in {entites[i].nom : i \in 1..Len(entites)} |-> RecordFallback]

\* the result of analyser_sentiment_batch when the call raised
SentimentsRaise ==
    [raised |-> TRUE, branche |-> "raise", marques |-> DictVide, sources |-> DictVide]

\* SentimentAnalyzer.analyser_sentiment_batch, given what query_provider gave;
\* branche names the branch taken: no subject, a reply, or no reply
analyser_sentiment_batch(reponse, marques, sources) ==
    IF marques = <<>> /\ sources = <<>>
    THEN [raised |-> FALSE, branche |-> "sans_sujet",
          marques |-> DictVide, sources |-> DictVide]
    ELSE IF reponse.statut = "raise" THEN SentimentsRaise
    ELSE IF reponse.statut = "texte"
    THEN [raised |-> FALSE, branche |-> "reponse"]
         @@ _parser_sentiment_batch(reponse, marques, sources)
    ELSE [raised |-> FALSE, branche |-> "fallback",
          marques |-> _generer_sentiments_fallback(marques),
          sources |-> _generer_sentiments_fallback(sources)]

\* sum(confiances_sentiment)
RECURSIVE Somme(_)
Somme(liste) == IF liste = <<>> THEN 0 ELSE Head(liste) + Somme(Tail(liste))

\* Python's round(somme / n): half to even
Round(somme, n) ==
    LET q == somme \div n
        r == somme % n
    IN  IF 2 * r < n THEN q
        ELSE IF 2 * r > n THEN q + 1
        ELSE IF q % 2 = 0 THEN q ELSE q + 1

\* a counting loop that records a label as seen instead of counting it
RECURSIVE CompterUneFois(_, _)
CompterUneFois(entrees, acc) ==
    IF entrees = <<>> THEN acc
    ELSE LET data == Head(entrees).data
         IN  CompterUneFois(Tail(entrees),
                 IF data.sentiment \in DOMAIN acc.compteur
                 THEN [compteur |-> [acc.compteur EXCEPT ![data.sentiment] = 1],
                       confiances |-> [acc.confiances EXCEPT ![data.sentiment] =
                                           Append(@, data.confiance)]]
                 ELSE acc)

\* the counting loop of calculer_sentiment_majoritaire: compteur and
\* confiances after the entries of the dict, in its order
RECURSIVE Compter(_, _)
Compter(entrees, acc) ==
    IF entrees = <<>> THEN acc
    ELSE LET data == Head(entrees).data
         IN  Compter(Tail(entrees),
                 IF data.sentiment \in DOMAIN acc.compteur
                 THEN [compteur |-> [acc.compteur EXCEPT ![data.sentiment] = @ + 1],
                       confiances |-> [acc.confiances EXCEPT ![data.sentiment] =
                                           Append(@, data.confiance)]]
                 ELSE acc)

\* a maximum that keeps the last key, in the dict's order, of the largest count
MaxCompteurDernier(compteur, ordre) ==
    LET i == CHOOSE i \in 1..Len(ordre) :
                 /\ \A j \in 1..Len(ordre) : compteur[ordre[j]] <= compteur[ordre[i]]
                 /\ \A j \in (i + 1)..Len(ordre) : compteur[ordre[j]] < compteur[ordre[i]]
    IN  ordre[i]

\* max(compteur.items(), key=lambda x: x[1]): the first key, in the dict's
\* order, whose count is the largest
MaxCompteur(compteur, ordre) ==
    LET i == CHOOSE i \in 1..Len(ordre) :
                 /\ \A j \in 1..Len(ordre) : compteur[ordre[j]] <= compteur[ordre[i]]
                 /\ \A j \in 1..(i - 1) : compteur[ordre[j]] < compteur[ordre[i]]
    IN  ordre[i]

\* majoritaire before any call of calculer_sentiment_majoritaire
NonCalcule == [sentiment |-> "non_calcule"]

\* the result of calculer_sentiment_majoritaire on an empty dict
SentimentInconnu == [sentiment |-> "inconnu", confiance |-> 0]

\* SentimentAnalyzer.calculer_sentiment_majoritaire; the dict is the sequence
\* of its entries [provider, data] in insertion order, consensus_score the
\* fraction <<numerator, denominator>>
calculer_sentiment_majoritaire(sentiments_multi_provider) ==
    IF sentiments_multi_provider = <<>> THEN SentimentInconnu
    ELSE LET acc == Compter(sentiments_multi_provider,
                        [compteur |-> [s \in Sentiments |-> 0],
                         confiances |-> [s \in Sentiments |-> <<>>]])
             gagnant == MaxCompteur(acc.compteur, SentimentOrder)
             confiances_sentiment == acc.confiances[gagnant]
         IN  [sentiment |-> gagnant,
              votes |-> acc.compteur[gagnant],
              total_providers |-> Len(sentiments_multi_provider),
              consensus_score |-> <<acc.compteur[gagnant], Len(sentiments_multi_provider)>>,
              confiance_moyenne |->
                  IF confiances_sentiment # <<>>
                  THEN Round(Somme(confiances_sentiment), Len(confiances_sentiment))
                  ELSE 50,
              distribution |-> acc.compteur]

-----------------------------------------------------------------------------
(* url_extractor.py *)

\* the prefixes urlparse reads as the scheme of an http URL
Schemes == {"https://", "http://"}

\* urllib.parse.urlparse: scheme, netloc, path and query of a URL
urlparse(url) ==
    LET avec == url # <<>> /\ Head(url) \in Schemes
        reste == IF avec THEN Tail(url) ELSE url
        fin_netloc == IF avec THEN PremierIndice(reste, {"/", "?"}) ELSE 1
        fin_path == PremierIndice(reste, {"?"})
    IN  [scheme |-> IF avec THEN Head(url) ELSE "",
         netloc |-> SubSeq(reste, 1, fin_netloc - 1),
         path |-> SubSeq(reste, fin_netloc, fin_path - 1),
         query |-> SubSeq(reste, fin_path + 1, Len(reste))]

\* URLExtractor._url_valide
_url_valide(url) ==
    urlparse(url).scheme # "" /\ urlparse(url).netloc # <<>>

\* the characters url.rstrip('.,;!?"\')]}') removes
PonctuationFinale == {".", ",", ";", "!", "?", "\"", "'", ")", "]", "}"}

\* the words utm_[^&]+ starts with
MotsUtm == {"utm_source", "utm_medium"}

\* whether [?&](utm_[^&]+|gclid=[^&]+|fbclid=[^&]+) matches at the head of s
TrackingEnTete(s) ==
    /\ Len(s) >= 2
    /\ s[1] \in {"?", "&"}
    /\ \/ s[2] \in MotsUtm
       \/ /\ s[2] \in {"gclid", "fbclid"}
          /\ Len(s) >= 4
          /\ s[3] = "="
          /\ s[4] # "&"

\* re.sub(r'[?&](utm_[^&]+|gclid=[^&]+|fbclid=[^&]+)', '', url): a match runs
\* up to the next "&"
RECURSIVE SupprimerTracking(_)
SupprimerTracking(s) ==
    IF s = <<>> THEN <<>>
    ELSE IF TrackingEnTete(s)
    THEN SupprimerTracking(SubSeq(s, PremierIndice(Tail(s), {"&"}) + 1, Len(s)))
    ELSE <<Head(s)>> \o SupprimerTracking(Tail(s))

\* URLExtractor._nettoyer_url
_nettoyer_url(url) ==
    IF url = <<>> THEN <<>>
    ELSE LET net == RStrip(Strip(url, Blancs), PonctuationFinale)
             complet == IF StartsWith(net, <<"www", ".">>)
                        THEN <<"https://">> \o net
                        ELSE net
         IN  SupprimerTracking(complet)

\* urls_generiques of _est_url_exploitable_seo
urls_generiques ==
    {<<"/">>, <<>>, <<"/", "index">>, <<"/", "home">>, <<"/", "accueil">>}

\* sections_generales of _est_url_exploitable_seo
sections_generales ==
    {<<"/", "contact">>, <<"/", "mentions", "-", "legales">>, <<"/", "conditions">>,
     <<"/", "privacy">>, <<"/", "about">>, <<"/", "a", "-", "propos">>}

\* the tracking markers _est_url_exploitable_seo looks for in the query
ParametresTracking ==
    {<<w>> : w \in MotsUtm} \cup {<<"gclid">>, <<"fbclid">>, <<"ref", "=">>}

\* indicateurs_bons of _est_url_exploitable_seo
indicateurs_bons ==
    {<<"article">>, <<"guide">>, <<"comparatif">>, <<"conseil">>, <<"actualite">>,
     <<"dossier">>, <<"analyse">>, <<"test">>, <<"avis">>, <<"selection">>,
     <<"meilleur">>, <<"top", "-">>, <<"classement">>, <<"2024">>, <<"2025">>}

\* [p for p in path.split('/') if p]: the number of segments of a path
NbSegments(path) ==
    Cardinality({i \in 1..Len(path) :
                    path[i] # "/" /\ (i = 1 \/ path[i - 1] = "/")})

\* URLExtractor._est_url_exploitable_seo with a last branch that refuses
\* (mutation)
_est_url_exploitable_seoStrict(url) ==
    LET parsed == urlparse(url)
        path == Lower(parsed.path)
        query_params == Lower(parsed.query)
    IN  IF path \in urls_generiques
        THEN <<FALSE, "URL generique (page d'accueil)">>
        ELSE IF Longueur(path) < 3
        THEN <<FALSE, "URL trop courte, manque de specificite">>
        ELSE IF \E section \in sections_generales : IsSubstring(section, path)
        THEN <<FALSE, "Section generale non-informative">>
        ELSE IF /\ parsed.query # <<>>
                /\ \E param \in ParametresTracking : IsSubstring(param, query_params)
        THEN <<FALSE, "URL avec parametres de tracking">>
        ELSE IF \E indicateur \in indicateurs_bons : IsSubstring(indicateur, path)
        THEN <<TRUE, "URL specifique avec contenu informatif">>
        ELSE IF NbSegments(path) >= 2
        THEN <<TRUE, "URL structuree avec contenu specialise">>
        ELSE <<FALSE, "URL acceptable pour analyse">>

\* URLExtractor._est_url_exploitable_seo: (est_exploitable, raison)
_est_url_exploitable_seo(url) ==
    LET parsed == urlparse(url)
        path == Lower(parsed.path)
        query_params == Lower(parsed.query)
    IN  IF path \in urls_generiques
        THEN <<FALSE, "URL generique (page d'accueil)">>
        ELSE IF Longueur(path) < 3
        THEN <<FALSE, "URL trop courte, manque de specificite">>
        ELSE IF \E section \in sections_generales : IsSubstring(section, path)
        THEN <<FALSE, "Section generale non-informative">>
        ELSE IF /\ parsed.query # <<>>
                /\ \E param \in ParametresTracking : IsSubstring(param, query_params)
        THEN <<FALSE, "URL avec parametres de tracking">>
        ELSE IF \E indicateur \in indicateurs_bons : IsSubstring(indicateur, path)
        THEN <<TRUE, "URL specifique avec contenu informatif">>
        ELSE IF NbSegments(path) >= 2
        THEN <<TRUE, "URL structuree avec contenu specialise">>
        ELSE <<TRUE, "URL acceptable pour analyse">>

\* URLExtractor.excluded_domains
excluded_domains ==
    {<<d, ".", "com">> : d \in {"google", "bing", "yahoo", "duckduckgo", "facebook",
                                "twitter", "x", "linkedin", "instagram", "youtube",
                                "tiktok", "tinyurl"}}
    \cup {<<"bit", ".", "ly">>, <<"short", ".", "ly">>, <<"t", ".", "co">>}

\* a test of the domain that lets every domain pass (mutation)
_domaine_autoriseTous(url) == TRUE

\* URLExtractor._domaine_autorise; the last two labels of a domain are its
\* last three elements
_domaine_autorise(url) ==
    LET domaine == Lower(urlparse(url).netloc)
        domaine_principal == IF "." \in {domaine[i] : i \in 1..Len(domaine)}
                                /\ Len(domaine) >= 3
                             THEN SubSeq(domaine, Len(domaine) - 2, Len(domaine))
                             ELSE domaine
    IN  domaine_principal \notin excluded_domains

\* medias_fiables of _evaluer_fiabilite_domaine
medias_fiables ==
    {<<"lemonde", ".", "fr">>, <<"lefigaro", ".", "fr">>, <<"liberation", ".", "fr">>,
     <<"lepoint", ".", "fr">>, <<"lesechos", ".", "fr">>, <<"latribune", ".", "fr">>,
     <<"bfmtv", ".", "com">>, <<"franceinfo", ".", "fr">>}

\* URLExtractor._evaluer_fiabilite_domaine
_evaluer_fiabilite_domaine(url) ==
    LET domaine == Lower(urlparse(url).netloc)
    IN  IF \E ext \in {<<".", "gouv", ".", "fr">>, <<".", "edu">>, <<".", "org">>} :
               IsSubstring(ext, domaine)
        THEN "tres elevee"
        ELSE IF \E media \in medias_fiables : IsSubstring(media, domaine)
        THEN "elevee"
        ELSE IF \E terme \in {<<"banque", "-", "france">>, <<"amf", "-", "france">>,
                              <<"cnil">>} : IsSubstring(terme, domaine)
        THEN "elevee"
        ELSE "moyenne"

\* the loop of _valider_et_nettoyer_urls: sources_validees after the sources,
\* given urls_vues; accessibles holds the URLs that answer a HEAD request
RECURSIVE ValiderListe(_, _, _)
ValiderListe(sources, urls_vues, accessibles) ==
    IF sources = <<>> THEN <<>>
    ELSE LET source == Head(sources)
             url_nettoyee == _nettoyer_url(source.url)
         IN  IF /\ url_nettoyee # <<>>
                /\ url_nettoyee \notin urls_vues
                /\ _url_valide(url_nettoyee)
                /\ _domaine_autorise(url_nettoyee)
             THEN LET seo == _est_url_exploitable_seo(url_nettoyee)
                      source_enrichie ==
                          [url |-> url_nettoyee,
                           domaine |-> urlparse(url_nettoyee).netloc,
                           fiabilite_domaine |-> _evaluer_fiabilite_domaine(url_nettoyee),
                           accessible |-> url_nettoyee \in accessibles,
                           exploitable_seo |-> seo[1],
                           raison_seo |-> seo[2]] @@ source
                      suite == ValiderListe(Tail(sources),
                                   urls_vues \cup {url_nettoyee}, accessibles)
                  IN  IF seo[1] THEN <<source_enrichie>> \o suite ELSE suite
             ELSE ValiderListe(Tail(sources), urls_vues, accessibles)

\* URLExtractor._valider_et_nettoyer_urls
_valider_et_nettoyer_urls(sources, accessibles) ==
    ValiderListe(sources, {}, accessibles)

\* the position of the URL among the values of sources_uniques, 0 if absent
PositionUrl(uniques, url) ==
    IF \E i \in 1..Len(uniques) : uniques[i].url = url
    THEN CHOOSE i \in 1..Len(uniques) : uniques[i].url = url
    ELSE 0

\* the first loop of _deduplication_finale: the values of sources_uniques, in
\* insertion order, after the sources
RECURSIVE Uniques(_, _)
Uniques(sources, uniques) ==
    IF sources = <<>> THEN uniques
    ELSE LET source == Head(sources)
             i == PositionUrl(uniques, source.url)
         IN  IF source.url = <<>> THEN Uniques(Tail(sources), uniques)
             ELSE IF i = 0 THEN Uniques(Tail(sources), Append(uniques, source))
             ELSE IF source.exploitable_seo /\ ~uniques[i].exploitable_seo
             THEN Uniques(Tail(sources), [uniques EXCEPT ![i] = source])
             ELSE IF /\ source.exploitable_seo = uniques[i].exploitable_seo
                     /\ Longueur(source.nom) > Longueur(uniques[i].nom)
             THEN Uniques(Tail(sources), [uniques EXCEPT ![i] = source])
             ELSE Uniques(Tail(sources), uniques)

\* the sort key of _deduplication_finale
CleTri(x) ==
    <<IF x.exploitable_seo THEN 1 ELSE 0,
      IF x.fiabilite_domaine = "tres elevee" THEN 1 ELSE 0,
      IF x.fiabilite_domaine = "elevee" THEN 1 ELSE 0,
      Longueur(x.nom)>>

\* the order of Python on tuples of integers of the same length: a < b
TupleInferieur(a, b) ==
    \E i \in 1..Len(a) : a[i] < b[i] /\ \A j \in 1..(i - 1) : a[j] = b[j]

\* list.sort (mutation: the list is left in the order of sources_uniques)
SansTri(liste, triee) == triee \o liste

\* list.sort(key=..., reverse=True): stable, records of equal keys keep their order
RECURSIVE TriDecroissant(_, _)
TriDecroissant(liste, triee) ==
    IF liste = <<>> THEN triee
    ELSE LET x == Head(liste)
             k == Cardinality({i \in 1..Len(triee) :
                                  ~TupleInferieur(CleTri(triee[i]), CleTri(x))})
         IN  TriDecroissant(Tail(liste),
                 SubSeq(triee, 1, k) \o <<x>> \o SubSeq(triee, k + 1, Len(triee)))

\* URLExtractor._deduplication_finale
_deduplication_finale(sources) ==
    TriDecroissant(Uniques(sources, <<>>), <<>>)

\* str.capitalize on a word of a domain
CapitalizeMot(mot) ==
    CASE mot = "a" -> "A"
      [] mot = "b" -> "B"
      [] mot = "c" -> "C"
      [] mot = "d" -> "D"
      [] mot = "lemonde" -> "Lemonde"
      [] mot = "google" -> "Google"
      [] OTHER -> mot

\* URLExtractor._extraire_nom_depuis_url
_extraire_nom_depuis_url(url) ==
    LET netloc == urlparse(url).netloc
        domaine == IF StartsWith(netloc, <<"www", ".">>)
                   THEN SubSeq(netloc, 3, Len(netloc))
                   ELSE netloc
        premier == SubSeq(domaine, 1, PremierIndice(domaine, {"."}) - 1)
    IN  IF premier = <<>> THEN <<>>
        ELSE <<CapitalizeMot(LowerChar(Head(premier)))>> \o Lower(Tail(premier))

\* the loops of _parser_urls_reponse_initiale over the matches of url_patterns,
\* in the order the patterns give them: sources, given urls_trouvees.  A match
\* of the structured pattern carries the name it cites; a bare URL is named
\* after its domain.
RECURSIVE ParserMatches(_, _)
ParserMatches(matches, urls_trouvees) ==
    IF matches = <<>> THEN <<>>
    ELSE LET match == Head(matches)
             brute == Strip(match.url, Blancs)
             nom_source == IF match.structure
                           THEN Strip(match.nom, Blancs)
                           ELSE _extraire_nom_depuis_url(brute)
             url == _nettoyer_url(brute)
         IN  IF url # <<>> /\ url \notin urls_trouvees /\ _url_valide(url)
             THEN <<[nom |-> nom_source,
                     url |-> url,
                     domaine |-> urlparse(url).netloc,
                     methode_extraction |-> "parsing_initial"]>>
                  \o ParserMatches(Tail(matches), urls_trouvees \cup {url})
             ELSE ParserMatches(Tail(matches), urls_trouvees)

\* URLExtractor._parser_urls_reponse_initiale
_parser_urls_reponse_initiale(matches) == ParserMatches(matches, {})

\* the matches of the pattern of a follow-up reply that hold a valid URL, as
\* the records the parser builds
RECURSIVE ParserStructure(_, _)
ParserStructure(matches, methode) ==
    IF matches = <<>> THEN <<>>
    ELSE LET match == Head(matches)
             url == Strip(match.url, Blancs)
         IN  IF _url_valide(url)
             THEN <<[nom |-> Strip(match.nom, Blancs),
                     url |-> url,
                     domaine |-> urlparse(url).netloc,
                     methode_extraction |-> methode]>>
                  \o ParserStructure(Tail(matches), methode)
             ELSE ParserStructure(Tail(matches), methode)

\* URLExtractor._parser_reponse_sources_structurees
_parser_reponse_sources_structurees(matches) ==
    ParserStructure(matches, "demande_explicite")

\* URLExtractor._parser_citations_forcees
_parser_citations_forcees(matches) ==
    ParserStructure(matches, "citation_forcee")

\* URLExtractor._parser_urls_specifiques: every match becomes a source, a bare
\* URL named after its domain
_parser_urls_specifiques(matches) ==
    [i \in 1..Len(matches) |->
        LET url == Strip(matches[i].url, Blancs)
        IN  [nom |-> IF matches[i].structure
                     THEN Strip(matches[i].nom, Blancs)
                     ELSE _extraire_nom_depuis_url(url),
             url |-> url,
             type_contenu |-> "Article",
             methode_extraction |-> "demande_specifique"]]

\* the try block of a follow-up (mutation: a call that fails leaves a record
\* of the failure among the sources)
SourcesDuSuiviAvecErreur(issue, sources_parsees) ==
    IF issue = "reponse" THEN sources_parsees
    ELSE <<[nom |-> <<>>, url |-> <<>>, methode_extraction |-> issue]>>

\* the try block of _demander_sources_explicites, _forcer_citations_sources
\* and _demander_urls_specifiques: the sources of a follow-up whose call gave
\* the issue (a reply, nothing, or an exception)
SourcesDuSuivi(issue, sources_parsees) ==
    IF issue = "reponse" THEN sources_parsees ELSE <<>>

-----------------------------------------------------------------------------
(* information_extractor.py *)

\* the characters of a name that [^\w\s] matches
PonctuationNom == {"-", ".", ",", "!", "'"}

\* variations of _normaliser_nom_marque; the value of a key is written as the
\* words of the key without the blank between them
variations(nom_norm) ==
    IF nom_norm \in {<<"hello", " ", "bank">>, <<"credit", " ", "agricole">>,
                     <<"societe", " ", "generale">>, <<"bnp", " ", "paribas">>}
    THEN <<nom_norm[1], nom_norm[3]>>
    ELSE nom_norm

\* InformationExtractor._normaliser_nom_marque
_normaliser_nom_marque(nom) ==
    variations(Sans(Strip(Lower(nom), Blancs), PonctuationNom))

\* the position of the key among the keys of marques_uniques, 0 if absent
PositionCle(cles, cle) ==
    IF \E i \in 1..Len(cles) : cles[i] = cle
    THEN CHOOSE i \in 1..Len(cles) : cles[i] = cle
    ELSE 0

\* the loop of _deduplication_et_enrichissement_marques: the keys and the values
\* of marques_uniques, in insertion order; mentions[nom] is texte_complet.count(nom)
RECURSIVE DedupMarques(_, _, _, _)
DedupMarques(marques, cles, valeurs, mentions) ==
    IF marques = <<>> THEN valeurs
    ELSE LET marque == Head(marques)
             nom == Strip(marque.nom, Blancs)
             nom_normalise == _normaliser_nom_marque(nom)
             i == PositionCle(cles, nom_normalise)
         IN  IF i = 0
             THEN DedupMarques(Tail(marques), Append(cles, nom_normalise),
                      Append(valeurs, [nom |-> nom, mentions |-> mentions[nom]] @@ marque),
                      mentions)
             ELSE DedupMarques(Tail(marques), cles,
                      [valeurs EXCEPT ![i] =
                          [description |->
                               IF @.description = <<>> /\ marque.description # <<>>
                               THEN marque.description ELSE @.description,
                           source_detection |->
                               IF /\ marque.source_detection # <<>>
                                  /\ ~IsSubstring(marque.source_detection, @.source_detection)
                               THEN @.source_detection \o <<",", " ">>
                                        \o marque.source_detection
                               ELSE @.source_detection] @@ @],
                      mentions)

\* InformationExtractor._deduplication_et_enrichissement_marques
_deduplication_et_enrichissement_marques(marques, mentions) ==
    DedupMarques(marques, <<>>, <<>>, mentions)

-----------------------------------------------------------------------------
(* case_studies/llm_source_extractor.py *)

\* the characters url.strip('.,;:!?()[]{}"\' \t\n\r') removes
PonctuationUrl ==
    {".", ",", ";", ":", "!", "?", "(", ")", "[", "]", "{", "}", "\"", "'", " "}

\* url.replace(' ', '%20')
Remplacer20(s) == [i \in 1..Len(s) |-> IF s[i] = " " THEN "%20" ELSE s[i]]

\* LLMSourceExtractor._clean_url
_clean_url(url) ==
    IF url = <<>> THEN <<>>
    ELSE LET net == Strip(url, PonctuationUrl)
             complet == IF StartsWith(net, <<"www", ".">>)
                        THEN <<"https://">> \o net
                        ELSE net
         IN  Remplacer20(complet)

\* LLMSourceExtractor._is_valid_url
_is_valid_url(url) ==
    urlparse(url).scheme # "" /\ urlparse(url).netloc # <<>>

\* str.replace('www.', '')
RECURSIVE SansWww(_)
SansWww(s) ==
    IF s = <<>> THEN <<>>
    ELSE IF StartsWith(s, <<"www", ".">>) THEN SansWww(SubSeq(s, 3, Len(s)))
    ELSE <<Head(s)>> \o SansWww(Tail(s))

\* LLMSourceExtractor._extract_domain
_extract_domain(url) == SansWww(Lower(urlparse(url).netloc))

\* high_authority of _estimate_reliability
high_authority ==
    {<<"wikipedia", ".", "org">>, <<"gov", ".">>, <<".", "edu">>,
     <<"scholar", ".", "google", ".", "com">>, <<"nature", ".", "com">>,
     <<"science", ".", "org">>, <<"pubmed", ".", "ncbi", ".", "nlm", ".", "nih", ".", "gov">>}

\* news_authority of _estimate_reliability
news_authority ==
    {<<d, ".", "fr">> : d \in {"lemonde", "lefigaro", "liberation"}}
    \cup {<<d, ".", "com">> : d \in {"bbc", "reuters", "wsj", "ft", "economist"}}
    \cup {<<"ap", ".", "org">>}

\* finance_authority of _estimate_reliability
finance_authority ==
    {<<"banque", "-", "france", ".", "fr">>, <<"amf", "-", "france", ".", "org">>,
     <<"acpr", ".", "banque", "-", "france", ".", "fr">>, <<"cbanque", ".", "com">>,
     <<"moneyvox", ".", "fr">>, <<"boursorama", ".", "com">>}

\* LLMSourceExtractor._estimate_reliability, in hundredths
_estimate_reliability(url) ==
    LET domain == Lower(_extract_domain(url))
    IN  IF \E auth_domain \in high_authority : IsSubstring(auth_domain, domain) THEN 90
        ELSE IF \E news_domain \in news_authority : IsSubstring(news_domain, domain) THEN 80
        ELSE IF \E finance_domain \in finance_authority : IsSubstring(finance_domain, domain)
        THEN 75
        ELSE IF \E tld \in {"com", "fr", "org"} : IsSubstring(<<".", tld>>, domain) THEN 60
        ELSE 50

\* min(1.0, max(0.0, score)), in hundredths
Borner(score) == IF score > 100 THEN 100 ELSE IF score < 0 THEN 0 ELSE score

\* citation_indicators of _calculate_extraction_confidence
citation_indicators ==
    {<<mot, ":">> : mot \in {"source", "reference", "voir", "lien", "url", "site"}}

\* LLMSourceExtractor._calculate_extraction_confidence, in hundredths
_calculate_extraction_confidence(url, context) ==
    LET base == 50
        citation == IF \E indicator \in citation_indicators :
                          IsSubstring(indicator, Lower(context))
                    THEN 30 ELSE 0
        propre == IF StartsWith(url, <<"https://">>) /\ Longueur(url) > 20 THEN 10 ELSE 0
        tronquee == IF \/ (Len(url) >= 3 /\ SubSeq(url, Len(url) - 2, Len(url)) = <<".", ".", ".">>)
                       \/ Longueur(url) < 10
                    THEN 20 ELSE 0
    IN  Borner(base + citation + propre - tronquee)

\* the position where a stable descending sort on extraction_confidence puts x
RECURSIVE TriParConfiance(_, _)
TriParConfiance(liste, triee) ==
    IF liste = <<>> THEN triee
    ELSE LET x == Head(liste)
             k == Cardinality({i \in 1..Len(triee) :
                     triee[i].extraction_confidence >= x.extraction_confidence})
         IN  TriParConfiance(Tail(liste),
                 SubSeq(triee, 1, k) \o <<x>> \o SubSeq(triee, k + 1, Len(triee)))

\* the loops of _extract_urls_from_response over the matches of url_patterns,
\* each with the text around it: urls, given found_urls
RECURSIVE ExtraireMatches(_, _)
ExtraireMatches(matches, found_urls) ==
    IF matches = <<>> THEN <<>>
    ELSE LET url == _clean_url(Head(matches).url)
         IN  IF url # <<>> /\ url \notin found_urls /\ _is_valid_url(url)
             THEN <<[url |-> url,
                     citation_order |-> 0,
                     mentioned_in_context |-> Head(matches).context,
                     reliability_score |-> 0,
                     domain |-> <<>>,
                     extraction_confidence |->
                         _calculate_extraction_confidence(url, Head(matches).context)]>>
                  \o ExtraireMatches(Tail(matches), found_urls \cup {url})
             ELSE ExtraireMatches(Tail(matches), found_urls)

\* LLMSourceExtractor._extract_urls_from_response
_extract_urls_from_response(matches) ==
    TriParConfiance(ExtraireMatches(matches, {}), <<>>)

\* shortener_domains of _advanced_url_validation
shortener_domains ==
    {<<"bit", ".", "ly">>, <<"t", ".", "co">>, <<"tinyurl", ".", "com">>,
     <<"goo", ".", "gl">>, <<"ow", ".", "ly">>, <<"a", ".", "co">>,
     <<"amzn", ".", "to">>, <<"youtu", ".", "be">>}

\* the filters 1 to 4 of _advanced_url_validation
UrlConservee(url) ==
    /\ _is_valid_url(url)
    /\ Longueur(url) >= 15
    /\ ~\E shortener \in shortener_domains : IsSubstring(shortener, Lower(url))
    /\ ~\E engine \in {"google", "bing", "yahoo"} :
           IsSubstring(<<engine, ".", "com", "/", "search">>, Lower(url))
    /\ \/ ~\E social \in {"facebook", "twitter", "instagram", "linkedin"} :
             IsSubstring(<<social, ".", "com">>, Lower(url))
       \/ \E official \in {"company", "official", "pages"} :
             IsSubstring(<<"/", official, "/">>, Lower(url))

\* the steps 5 and 6 of _advanced_url_validation on a source that is kept
AvecBonusPath(source) ==
    LET path == urlparse(source.url).path
        significatif == IF path # <<>> /\ Longueur(path) > 1 THEN 10 ELSE 0
        pertinent == IF \E keyword \in {"guide", "article", "blog", "ressource",
                                        "documentation"} :
                           IsSubstring(<<keyword>>, Lower(path))
                     THEN 5 ELSE 0
    IN  [source EXCEPT !.extraction_confidence = @ + significatif + pertinent]

\* the loop of _advanced_url_validation
RECURSIVE ValiderSources(_)
ValiderSources(sources) ==
    IF sources = <<>> THEN <<>>
    ELSE IF UrlConservee(Head(sources).url)
    THEN <<AvecBonusPath(Head(sources))>> \o ValiderSources(Tail(sources))
    ELSE ValiderSources(Tail(sources))

\* LLMSourceExtractor._advanced_url_validation
_advanced_url_validation(sources) ==
    TriParConfiance(ValiderSources(sources), <<>>)

\* max_sources_per_provider of extract_sources_multi_llm
max_sources_per_provider == 10

\* the body of the loop of extract_sources_multi_llm for a provider that
\* answered: the sources of its response; suivi holds the matches of the
\* follow-up, when it was answered
SourcesDuProvider(matches, suivi) ==
    LET sources == _extract_urls_from_response(matches)
        additional_sources == IF suivi.recu
                              THEN _extract_urls_from_response(suivi.matches)
                              ELSE <<>>
        new_sources == SelectSeq(additional_sources,
                           LAMBDA s : \A k \in 1..Len(sources) : sources[k].url # s.url)
        toutes == IF Len(sources) * 10 < max_sources_per_provider * 7
                  THEN sources \o new_sources
                  ELSE sources
        validees == _advanced_url_validation(toutes)
        limitees == SubSeq(validees, 1,
                       IF Len(validees) < max_sources_per_provider
                       THEN Len(validees) ELSE max_sources_per_provider)
    IN  [i \in 1..Len(limitees) |->
            [limitees[i] EXCEPT
                !.citation_order = i,
                !.domain = _extract_domain(limitees[i].url),
                !.reliability_score = _estimate_reliability(limitees[i].url)]]

\* the positions <<r, k>> of the sources of the responses, in the order of the
\* loops of _deduplicate_across_providers
RECURSIVE PositionsSources(_, _)
PositionsSources(responses, r) ==
    IF r > Len(responses) THEN <<>>
    ELSE [k \in 1..Len(responses[r].sources) |-> <<r, k>>]
         \o PositionsSources(responses, r + 1)

\* url_to_best_source after the first loop, as the position of the source
\* kept for each URL
RECURSIVE MeilleuresSources(_, _, _)
MeilleuresSources(positions, responses, url_to_best_source) ==
    IF positions = <<>> THEN url_to_best_source
    ELSE LET source == responses[Head(positions)[1]].sources[Head(positions)[2]]
             url == source.url
         IN  IF url \notin DOMAIN url_to_best_source
             THEN MeilleuresSources(Tail(positions), responses,
                      DictSet(url_to_best_source, url, Head(positions)))
             ELSE LET p == url_to_best_source[url]
                      best == responses[p[1]].sources[p[2]]
                  IN  IF source.extraction_confidence > best.extraction_confidence
                      THEN MeilleuresSources(Tail(positions), responses,
                               DictSet(url_to_best_source, url, Head(positions)))
                      ELSE MeilleuresSources(Tail(positions), responses, url_to_best_source)

\* the sources of a response that keep their place after the deduplication,
\* from the k-th on.  A source is compared with the best one of its URL, an
\* object of another response when it is not itself the best.
RECURSIVE SourcesUniques(_, _, _, _, _)
SourcesUniques(responses, r, k, url_to_best_source, url_to_provider) ==
    IF k > Len(responses[r].sources) THEN <<>>
    ELSE LET source == responses[r].sources[k]
             suite == SourcesUniques(responses, r, k + 1, url_to_best_source,
                                     url_to_provider)
         IN  IF url_to_best_source[source.url] = <<r, k>>
             THEN <<IF Len(url_to_provider[source.url]) > 1
                    THEN [source EXCEPT
                             !.mentioned_in_context =
                                 @ \o <<"[Trouvee par]">>,
                             !.reliability_score = @ + 10]
                    ELSE source>> \o suite
             ELSE suite

\* LLMSourceExtractor._deduplicate_across_providers
_deduplicate_across_providers(responses) ==
    IF Len(responses) <= 1 THEN responses
    ELSE LET positions == PositionsSources(responses, 1)
             url_to_best_source == MeilleuresSources(positions, responses, DictVide)
             url_to_provider ==
                 [url \in DOMAIN url_to_best_source |->
                     SelectSeq([i \in 1..Len(positions) |->
                                   <<responses[positions[i][1]].provider,
                                     responses[positions[i][1]]
                                        .sources[positions[i][2]].url>>],
                               LAMBDA x : x[2] = url)]
         IN  [r \in 1..Len(responses) |->
                 [responses[r] EXCEPT
                     !.sources = SourcesUniques(responses, r, 1, url_to_best_source,
                                                url_to_provider)]]

\* the responses extract_sources_multi_llm collects before the deduplication;
\* recues[i] tells whether the query of providers[i] was answered, with the
\* matches of its response and of its follow-up
RECURSIVE CollecterResponses(_, _)
CollecterResponses(providers, recues) ==
    IF providers = <<>> THEN <<>>
    ELSE IF ~Head(recues).recu THEN CollecterResponses(Tail(providers), Tail(recues))
    ELSE <<[provider |-> Head(providers),
            sources |-> SourcesDuProvider(Head(recues).matches, Head(recues).suivi)]>>
         \o CollecterResponses(Tail(providers), Tail(recues))

\* LLMSourceExtractor.extract_sources_multi_llm
extract_sources_multi_llm(providers, recues) ==
    _deduplicate_across_providers(CollecterResponses(providers, recues))

\* the reply to the HEAD request of verify_urls_accessibility
StatutsHttp == {"200", "redirection", "autre", "RequestException"}

\* LLMSourceExtractor.verify_urls_accessibility; statuts[i] is what the request
\* for sources[i] gives
verify_urls_accessibility(sources, statuts) ==
    [i \in 1..Len(sources) |->
        [sources[i] EXCEPT
            !.reliability_score =
                Borner(@ + CASE statuts[i] = "200" -> 10
                             [] statuts[i] = "redirection" -> 5
                             [] statuts[i] = "autre" -> 0 - 20
                             [] statuts[i] = "RequestException" -> 0 - 30)]]

-----------------------------------------------------------------------------
(* multi_llm_analyzer.py *)

\* entite.get(key_field, '')
Cle(entite, key_field) == IF key_field = "nom" THEN entite.nom ELSE entite.url

\* the position in a list of consolidated entities of the key cle, 0 if absent
Position(consolidees, cle) ==
    IF \E i \in 1..Len(consolidees) : consolidees[i].cle = cle
    THEN CHOOSE i \in 1..Len(consolidees) : consolidees[i].cle = cle
    ELSE 0

\* the fields _consolider_entites takes from a later detection
ChampsEnrichis == {"description", "contexte", "fiabilite"}

\* the enrichment of a consolidated entity by another detection of it: a field
\* the entity lacks, or holds empty, is taken from the detection
Enrichir(existante, entite) ==
    LET pris == {field \in ChampsEnrichis \cap DOMAIN entite :
                    field \notin DOMAIN existante \/ existante[field] = <<>>}
    IN  [field \in DOMAIN existante \cup pris |->
            IF field \in pris THEN entite[field] ELSE existante[field]]

\* the inner loop of _consolider_entites: the entities of one provider
RECURSIVE ConsoliderListe(_, _, _, _)
ConsoliderListe(provider, entites, key_field, consolidees) ==
    IF entites = <<>> THEN consolidees
    ELSE LET entite == Head(entites)
             cle == Cle(entite, key_field)
             i == Position(consolidees, cle)
         IN  ConsoliderListe(provider, Tail(entites), key_field,
                 IF cle = <<>> THEN consolidees
                 ELSE IF i = 0
                 THEN Append(consolidees,
                          [cle |-> cle, entite |-> entite,
                           providers_detection |-> <<provider>>])
                 ELSE [consolidees EXCEPT ![i].providers_detection =
                                              Append(@, provider),
                                          ![i].entite = Enrichir(@, entite)])

\* the outer loop of _consolider_entites: the providers, in the dict's order
RECURSIVE ConsoliderProviders(_, _, _, _)
ConsoliderProviders(ordre, entites_par_provider, key_field, consolidees) ==
    IF ordre = <<>> THEN consolidees
    ELSE ConsoliderProviders(Tail(ordre), entites_par_provider, key_field,
             ConsoliderListe(Head(ordre), entites_par_provider[Head(ordre)],
                             key_field, consolidees))

\* MultiLLMAnalyzer._consolider_entites; ordre is the insertion order of the
\* keys of entites_par_provider
_consolider_entites(ordre, entites_par_provider, key_field) ==
    ConsoliderProviders(ordre, entites_par_provider, key_field, <<>>)

\* sentiments_entite of _calculer_consensus_entites: the records of the
\* providers whose sentiments hold the key, in the dict's order
RECURSIVE SentimentsEntite(_, _, _)
SentimentsEntite(ordre, sentiments_par_provider, cle) ==
    IF ordre = <<>> THEN <<>>
    ELSE LET provider == Head(ordre)
             sentiments == sentiments_par_provider[provider]
             reste == SentimentsEntite(Tail(ordre), sentiments_par_provider, cle)
         IN  IF cle \in DOMAIN sentiments
             THEN <<[provider |-> provider, data |-> sentiments[cle]]>> \o reste
             ELSE reste

\* a consensus that gives every consolidated entity an entry
MaterialiseToujours(sentiments_entite) == TRUE

\* whether _calculer_consensus_entites gives the entity an entry
Materialise(sentiments_entite) == sentiments_entite # <<>>

\* MultiLLMAnalyzer._calculer_consensus_entites; entites is the list
\* _consolider_entites returned
_calculer_consensus_entites(ordre, sentiments_par_provider, entites) ==
    LET cles == {entites[i].cle : i \in 1..Len(entites)}
        avec == {cle \in cles :
                    /\ cle # <<>>
                    /\ Materialise(SentimentsEntite(ordre, sentiments_par_provider, cle))}
    IN  [cle \in avec |->
            calculer_sentiment_majoritaire(
                SentimentsEntite(ordre, sentiments_par_provider, cle))]

\* resultats['rapport_consolide'] before consolidation: {}
RapportVide ==
    [fait |-> FALSE, toutes_marques |-> <<>>, toutes_sources |-> <<>>,
     consensus_marques |-> DictVide, consensus_sources |-> DictVide]

\* MultiLLMAnalyzer._consolider_resultats_v2
_consolider_resultats_v2(ordre, marques, sources, s_marques, s_sources) ==
    LET toutes_marques == _consolider_entites(ordre, marques, "nom")
        toutes_sources == _consolider_entites(ordre, sources, "url")
    IN  [fait |-> TRUE,
         toutes_marques |-> toutes_marques,
         toutes_sources |-> toutes_sources,
         consensus_marques |->
             _calculer_consensus_entites(ordre, s_marques, toutes_marques),
         consensus_sources |->
             _calculer_consensus_entites(ordre, s_sources, toutes_sources)]

\* resultats['statistiques'] before consolidation: {}
StatistiquesVides ==
    [fait |-> FALSE, nombre_providers |-> 0, providers_utilises |-> <<>>,
     extraction_performance |-> DictVide,
     sentiment_distribution |-> DictVide]

\* the inner loops of _calculer_statistiques_v2: the subjects of all providers
\* that carry one sentiment
NbSentiments(par_provider, sentiment) ==
    Somme([i \in 1..Len(ProviderOrder) |->
              IF ProviderOrder[i] \in DOMAIN par_provider
              THEN Cardinality({cle \in DOMAIN par_provider[ProviderOrder[i]] :
                       par_provider[ProviderOrder[i]][cle].sentiment = sentiment})
              ELSE 0])

\* MultiLLMAnalyzer._calculer_statistiques_v2
_calculer_statistiques_v2(utilises, marques, sources, s_marques, s_sources) ==
    [fait |-> TRUE,
     nombre_providers |-> Len(utilises),
     providers_utilises |-> utilises,
     extraction_performance |->
         [provider \in {utilises[i] : i \in 1..Len(utilises)} |->
             LET nb_marques == IF provider \in DOMAIN marques
                               THEN Len(marques[provider]) ELSE 0
                 nb_sources == IF provider \in DOMAIN sources
                               THEN Len(sources[provider]) ELSE 0
             IN  [marques_extraites |-> nb_marques,
                  sources_extraites |-> nb_sources,
                  total_entites |-> nb_marques + nb_sources]],
     sentiment_distribution |->
         [category \in {"marques", "sources"} |->
             [sentiment \in {"positif", "neutre", "negatif"} |->
                 NbSentiments(IF category = "marques" THEN s_marques
                              ELSE s_sources, sentiment)]]]

\* a selection of the providers by the truthiness of their response
RECURSIVE ProvidersUtilisesTruthy(_, _)
ProvidersUtilisesTruthy(ordre, reps) ==
    IF ordre = <<>> THEN <<>>
    ELSE IF Head(ordre) \in DOMAIN reps /\ reps[Head(ordre)] # None /\ reps[Head(ordre)] # ""
    THEN <<Head(ordre)>> \o ProvidersUtilisesTruthy(Tail(ordre), reps)
    ELSE ProvidersUtilisesTruthy(Tail(ordre), reps)

\* resultats['providers_utilises']: the providers whose response is not None,
\* in the order of the dict
RECURSIVE ProvidersUtilises(_, _)
ProvidersUtilises(ordre, reps) ==
    IF ordre = <<>> THEN <<>>
    ELSE IF Head(ordre) \in DOMAIN reps /\ reps[Head(ordre)] # None
    THEN <<Head(ordre)>> \o ProvidersUtilises(Tail(ordre), reps)
    ELSE ProvidersUtilises(Tail(ordre), reps)

\* the provider a loop over providers_utilises handles next, given the
\* providers it has handled
Prochain(faits) ==
    providers_utilises[CHOOSE i \in 1..Len(providers_utilises) :
        /\ providers_utilises[i] \notin faits
        /\ \A j \in 1..(i - 1) : providers_utilises[j] \in faits]

\* the brand lists extraire_marques_completes can give for a response text
ListesMarques(texte) ==
    IF texte = "" THEN {<<>>} ELSE ListesCourtes(MarquesUnivers)

\* the source lists extraire_urls_depuis_reponse can give: the follow-up
\* prompts of the cascade can bring sources even when the text holds none
ListesSources == ListesCourtes(SourcesUnivers)

\* the replies query_provider can give to the prompt of
\* analyser_sentiment_batch; no prompt is sent when there is no subject
ReponsesSentiment(provider, marques, sources) ==
    IF marques = <<>> /\ sources = <<>> THEN {ReponseNone}
    ELSE {query_provider(available_providers, provider, "ok", corps,
                         ReponseNone, ReponseRaise) :
              corps \in CorpsSentiment(marques, sources)}
         \cup
         {query_provider(available_providers, provider, outcome, ReponseNone,
                         ReponseNone, ReponseRaise) :
              outcome \in NetworkOutcomes \ {"ok"}}

-----------------------------------------------------------------------------
(* One call of analyser_question_multi_llm *)

\* a question as the dashboard passes it, and the empty string
QuestionPosee == <<"Bank", "?">>

QuestionVide == <<>>

\* the state at the call, for one question
InitRunDe(q) ==
    /\ pc = "init"
    /\ question = q
    /\ statistiques = StatistiquesVides
    /\ available_providers \in
           {S \in SUBSET Providers : Cardinality(S) <= MaxDisponibles}
    /\ issues = DictVide
    /\ reponses = DictVide
    /\ providers_utilises = <<>>
    /\ marques_detectees = DictVide
    /\ sources_extraites = DictVide
    /\ sentiment_marques = DictVide
    /\ sentiment_sources = DictVide
    /\ sentiment_recu = DictVide
    /\ rapport_consolide = RapportVide
    /\ erreur_critique = FALSE
    /\ retour = "aucun"

InitRun == InitRunDe(QuestionPosee)

InitVoteOff ==
    /\ votes = <<>>
    /\ majoritaire = NonCalcule

\* MultiLLMAnalyzer.__init__: RuntimeError without any provider, which
\* analyser_question_multi_llm turns into {'erreur': ...}
Construire ==
    /\ pc = "init"
    /\ IF has_available_providers(available_providers)
       THEN /\ pc' = "collecte"
            /\ retour' = retour
       ELSE /\ pc' = "retour"
            /\ retour' = "erreur"
    /\ UNCHANGED <<available_providers, issues, reponses, providers_utilises,
                   marques_detectees, sources_extraites, sentiment_marques,
                   sentiment_sources, sentiment_recu, rapport_consolide,
                   erreur_critique>>
    /\ UNCHANGED <<question, statistiques>>
    /\ UNCHANGED <<varsVote, varsFonctions>>

\* step 1 of analyser_question_complete: query_all_providers, then the early
\* return when no provider gave a response
Collecter ==
    /\ pc = "collecte"
    /\ \E outcomes \in [available_providers -> NetworkOutcomes],
          corps \in [available_providers -> Textes] :
          LET reps == query_all_providers(available_providers, outcomes, corps)
              utilises == ProvidersUtilises(ProviderOrder, reps)
          IN  /\ issues' = outcomes
              /\ reponses' = reps
              /\ providers_utilises' = utilises
              /\ IF utilises = <<>>
                 THEN /\ pc' = "retour"
                      /\ retour' = "resultats"
                 ELSE /\ pc' = "extraction"
                      /\ retour' = retour
    /\ UNCHANGED <<available_providers, marques_detectees, sources_extraites,
                   sentiment_marques, sentiment_sources, sentiment_recu,
                   rapport_consolide, erreur_critique>>
    /\ UNCHANGED <<question, statistiques>>
    /\ UNCHANGED <<varsVote, varsFonctions>>

\* step 2, one iteration of the loop over providers_utilises: brands and
\* sources of one response
Extraire ==
    /\ pc = "extraction"
    /\ LET provider == Prochain(DOMAIN marques_detectees)
       IN  \E marques \in ListesMarques(reponses[provider]),
              sources \in ListesSources :
              /\ marques_detectees' = DictSet(marques_detectees, provider, marques)
              /\ sources_extraites' = DictSet(sources_extraites, provider, sources)
              /\ pc' = IF DOMAIN marques_detectees \cup {provider}
                          = {providers_utilises[i] : i \in 1..Len(providers_utilises)}
                       THEN "sentiment" ELSE "extraction"
    /\ UNCHANGED <<available_providers, issues, reponses, providers_utilises,
                   sentiment_marques, sentiment_sources, sentiment_recu,
                   rapport_consolide, erreur_critique, retour>>
    /\ UNCHANGED <<question, statistiques>>
    /\ UNCHANGED <<varsVote, varsFonctions>>

\* step 3, one iteration of the loop over providers_utilises:
\* analyser_sentiment_batch for one provider; an exception ends the run in the
\* except branch of analyser_question_complete
AnalyserSentiment ==
    /\ pc = "sentiment"
    /\ LET provider == Prochain(DOMAIN sentiment_marques)
       IN  \E reponse \in ReponsesSentiment(provider,
                              marques_detectees[provider],
                              sources_extraites[provider]) :
              LET sentiments == analyser_sentiment_batch(reponse,
                                    marques_detectees[provider],
                                    sources_extraites[provider])
              IN  IF sentiments.raised
                  THEN /\ erreur_critique' = TRUE
                       /\ pc' = "retour"
                       /\ retour' = "resultats"
                       /\ UNCHANGED <<sentiment_marques, sentiment_sources,
                                      sentiment_recu>>
                  ELSE /\ sentiment_marques' =
                              DictSet(sentiment_marques, provider, sentiments.marques)
                       /\ sentiment_sources' =
                              DictSet(sentiment_sources, provider, sentiments.sources)
                       /\ sentiment_recu' =
                              DictSet(sentiment_recu, provider, sentiments.branche)
                       /\ pc' = IF DOMAIN sentiment_marques \cup {provider}
                                   = {providers_utilises[i] :
                                         i \in 1..Len(providers_utilises)}
                                THEN "consolidation" ELSE "sentiment"
                       /\ UNCHANGED <<erreur_critique, retour>>
    /\ UNCHANGED <<available_providers, issues, reponses, providers_utilises,
                   marques_detectees, sources_extraites, rapport_consolide>>
    /\ UNCHANGED <<question, statistiques>>
    /\ UNCHANGED <<varsVote, varsFonctions>>

\* step 4 of analyser_question_complete, its return, and the return of
\* analyser_question_multi_llm
Consolider ==
    /\ pc = "consolidation"
    /\ rapport_consolide' =
           _consolider_resultats_v2(providers_utilises, marques_detectees,
               sources_extraites, sentiment_marques, sentiment_sources)
    /\ statistiques' =
           _calculer_statistiques_v2(providers_utilises, marques_detectees,
               sources_extraites, sentiment_marques, sentiment_sources)
    /\ pc' = "retour"
    /\ retour' = "resultats"
    /\ UNCHANGED <<available_providers, issues, reponses, providers_utilises,
                   marques_detectees, sources_extraites, sentiment_marques,
                   sentiment_sources, sentiment_recu, erreur_critique>>
    /\ UNCHANGED question
    /\ UNCHANGED <<varsVote, varsFonctions>>

Next == Construire \/ Collecter \/ Extraire \/ AnalyserSentiment \/ Consolider

Init == InitRun /\ InitVoteOff /\ InitFonctionsOff

Spec == Init /\ [][Next]_vars

\* the same call with question = ""
InitQuestionVide == InitRunDe(QuestionVide) /\ InitVoteOff /\ InitFonctionsOff

SpecQuestionVide == InitQuestionVide /\ [][Next]_vars

-----------------------------------------------------------------------------
(* calculer_sentiment_majoritaire on its own: the dict is built entry by    *)
(* entry, in any order of the voters, then the function is applied          *)

\* the keys of the dict
Voters == 1..MaxVotes

\* the records a provider's sentiment dict can hold for one subject
VoteRecords ==
    {RecordParse(bloc) :
        bloc \in [label : {LabelInconnu}, sentiment : SentimentsBruts,
                  confiance : ConfiancesBrutes]}
    \cup {RecordFallback}

InitRunOff ==
    /\ pc = "hors_run"
    /\ question = <<>>
    /\ statistiques = StatistiquesVides
    /\ available_providers = {}
    /\ issues = DictVide
    /\ reponses = DictVide
    /\ providers_utilises = <<>>
    /\ marques_detectees = DictVide
    /\ sources_extraites = DictVide
    /\ sentiment_marques = DictVide
    /\ sentiment_sources = DictVide
    /\ sentiment_recu = DictVide
    /\ rapport_consolide = RapportVide
    /\ erreur_critique = FALSE
    /\ retour = "aucun"

InitVote ==
    /\ InitRunOff
    /\ InitFonctionsOff
    /\ votes = <<>>
    /\ majoritaire = NonCalcule

\* sentiments_entite[provider] = sentiments[cle]
AjouterVote ==
    /\ majoritaire = NonCalcule
    /\ Len(votes) < MaxVotes
    /\ \E v \in Voters \ {votes[i].provider : i \in 1..Len(votes)},
          data \in VoteRecords :
          votes' = Append(votes, [provider |-> v, data |-> data])
    /\ UNCHANGED majoritaire
    /\ UNCHANGED <<varsRun, varsFonctions>>

\* the call of calculer_sentiment_majoritaire
CalculerMajoritaire ==
    /\ majoritaire = NonCalcule
    /\ majoritaire' = calculer_sentiment_majoritaire(votes)
    /\ UNCHANGED votes
    /\ UNCHANGED <<varsRun, varsFonctions>>

NextVote == AjouterVote \/ CalculerMajoritaire

SpecVote == InitVote /\ [][NextVote]_vars

-----------------------------------------------------------------------------
(* _consolider_entites and _calculer_consensus_entites on the lists the        *)
(* extractors give for each provider                                         *)

\* the lists over S holding at most two elements
ListesDe2(S) == ListesCourtes(S) \cup {<<x, y>> : x, y \in S}

\* the page of the candidates, and the ways a reply can write its URL
UrlPage == <<"https://", "a", ".", "fr", "/", "guide">>

UrlPageSlash == UrlPage \o <<"/">>

UrlPageCasse == <<"https://", "A", ".", "fr", "/", "guide">>

UrlPageTracking == UrlPage \o <<"?", "utm_source", "=", "1">>

\* the candidates the parsers of a cascade can hand to the validation
CandidatsSources ==
    {[nom |-> <<"A">>, url |-> UrlPage, methode_extraction |-> "parsing_initial"],
     [nom |-> <<"A">>, url |-> UrlPageCasse, methode_extraction |-> "parsing_initial"],
     [nom |-> <<"A">>, url |-> UrlPageTracking, methode_extraction |-> "parsing_initial"],
     [nom |-> <<"Guide", " ", "a">>, url |-> UrlPage, fiabilite |-> <<"Elevee">>,
      methode_extraction |-> "demande_explicite"],
     [nom |-> <<"Guide", " ", "a">>, url |-> UrlPageSlash, fiabilite |-> <<"Moyenne">>,
      methode_extraction |-> "demande_explicite"],
     [nom |-> <<"Dossier">>, url |-> <<"https://", "x", ".", "gouv", ".", "fr", "/", "dossier">>,
      fiabilite |-> <<"Moyenne">>, methode_extraction |-> "demande_explicite"]}

\* the source lists extraire_urls_depuis_reponse can return for one provider
SortiesSources ==
    {_deduplication_finale(_valider_et_nettoyer_urls(candidats, {})) :
        candidats \in ListesDe2(CandidatsSources)}

\* the brands the detection strategies can find in a response
CandidatsMarques ==
    {[nom |-> <<"Hello", " ", "Bank">>, description |-> <<>>,
      source_detection |-> <<"capitalisation">>],
     [nom |-> <<"hello", " ", "bank">>, description |-> <<"banque">>,
      source_detection |-> <<"section_structuree">>],
     [nom |-> <<"Hello", "-", "Bank">>, description |-> <<>>,
      source_detection |-> <<"pattern_contextuel">>],
     [nom |-> <<"B", "x">>, description |-> <<>>,
      source_detection |-> <<"capitalisation">>]}

\* texte_complet.count(nom) for the names of the candidates, in a response that
\* writes each name once or twice
MentionsPossibles ==
    {[nom \in {Strip(c.nom, Blancs) : c \in CandidatsMarques} |-> n] : n \in {1, 2}}

\* the brand lists extraire_marques_completes can return for one provider
SortiesMarques ==
    {_deduplication_et_enrichissement_marques(candidats, mentions) :
        candidats \in ListesDe2(CandidatsMarques), mentions \in MentionsPossibles}

\* the orders in which the results of at most MaxDisponibles providers arrive
OrdresArrivee ==
    {ordre \in UNION {[1..n -> Providers] : n \in 1..MaxDisponibles} :
        \A i, j \in 1..Len(ordre) : ordre[i] = ordre[j] => i = j}

\* the records a sentiment analysis gives to the entities of one provider,
\* keyed by their names
SentimentsDe(entites) ==
    {[nom \in {entites[i].nom : i \in 1..Len(entites)} |-> record] :
        record \in {RecordFallback,
                    [sentiment |-> "positif", confiance |-> 85,
                     methode_analyse |-> "llm_specialise"]}}

InitConsolidation ==
    /\ InitRunOff
    /\ InitVoteOff
    /\ InitAutresOff
    /\ normalisation = Hors
    /\ cascade = Hors
    /\ etude = Hors
    /\ \E ordre \in OrdresArrivee, key_field \in {"url", "nom"} :
          \E entites \in [{ordre[i] : i \in 1..Len(ordre)} ->
                             IF key_field = "url" THEN SortiesSources
                             ELSE SortiesMarques] :
              consolidation = [pc |-> "entites", ordre |-> ordre,
                               key_field |-> key_field,
                               entites_par_provider |-> entites,
                               sentiments_par_provider |-> DictVide,
                               toutes_entites |-> <<>>,
                               consensus |-> DictVide]

\* toutes_marques / toutes_sources = self._consolider_entites(...)
ConsoliderEntites ==
    /\ consolidation.pc = "entites"
    /\ consolidation' =
           [consolidation EXCEPT
               !.pc = "consensus",
               !.toutes_entites = _consolider_entites(consolidation.ordre,
                                      consolidation.entites_par_provider,
                                      consolidation.key_field)]
    /\ UNCHANGED <<varsRun, varsVote, varsAutres, normalisation, cascade, etude>>

\* consensus_marques / consensus_sources = self._calculer_consensus_entites(...)
CalculerConsensus ==
    /\ consolidation.pc = "consensus"
    /\ \E sentiments \in
             [DOMAIN consolidation.entites_par_provider ->
                 UNION {SentimentsDe(consolidation.entites_par_provider[q]) :
                           q \in DOMAIN consolidation.entites_par_provider}] :
          /\ \A p \in DOMAIN sentiments :
                sentiments[p] \in SentimentsDe(consolidation.entites_par_provider[p])
          /\ consolidation' =
                 [consolidation EXCEPT
                     !.pc = "fait",
                     !.sentiments_par_provider = sentiments,
                     !.consensus = _calculer_consensus_entites(consolidation.ordre,
                                       sentiments, consolidation.toutes_entites)]
    /\ UNCHANGED <<varsRun, varsVote, varsAutres, normalisation, cascade, etude>>

NextConsolidation == ConsoliderEntites \/ CalculerConsensus

SpecConsolidation == InitConsolidation /\ [][NextConsolidation]_vars

-----------------------------------------------------------------------------
(* The normalisation functions, applied once and once more *)

\* the strings of at most MaxChaine elements over an alphabet
Chaines(alphabet) == UNION {[1..n -> alphabet] : n \in 0..MaxChaine}

\* what the text around a URL can be made of
AlphabetUrl == {"https://", "www", ".", "a", " ", "?", "&", "utm_source"}

\* what a brand name can be made of
AlphabetNom == {"Hello", "hello", "bank", " ", "-", "."}

\* the normalisation functions and their arguments
FonctionsNormalisation ==
    [fonction : {"_nettoyer_url", "_clean_url"}, x : Chaines(AlphabetUrl)]
    \cup [fonction : {"_normaliser_nom_marque"}, x : Chaines(AlphabetNom)]

\* one call of a normalisation function
Normaliser(fonction, x) ==
    CASE fonction = "_nettoyer_url" -> _nettoyer_url(x)
      [] fonction = "_clean_url" -> _clean_url(x)
      [] fonction = "_normaliser_nom_marque" -> _normaliser_nom_marque(x)

InitNormalisation ==
    /\ InitRunOff
    /\ InitVoteOff
    /\ InitAutresOff
    /\ cascade = Hors
    /\ consolidation = Hors
    /\ etude = Hors
    /\ \E appel \in FonctionsNormalisation :
          normalisation = [pc |-> "x", fonction |-> appel.fonction, x |-> appel.x,
                           une_fois |-> <<>>, deux_fois |-> <<>>]

\* normalize(x)
NormaliserUneFois ==
    /\ normalisation.pc = "x"
    /\ normalisation' =
           [normalisation EXCEPT
               !.pc = "une_fois",
               !.une_fois = Normaliser(normalisation.fonction, normalisation.x)]
    /\ UNCHANGED <<varsRun, varsVote, varsAutres, cascade, consolidation, etude>>

\* normalize(normalize(x))
NormaliserDeuxFois ==
    /\ normalisation.pc = "une_fois"
    /\ normalisation' =
           [normalisation EXCEPT
               !.pc = "deux_fois",
               !.deux_fois = Normaliser(normalisation.fonction, normalisation.une_fois)]
    /\ UNCHANGED <<varsRun, varsVote, varsAutres, cascade, consolidation, etude>>

NextNormalisation == NormaliserUneFois \/ NormaliserDeuxFois

SpecNormalisation == InitNormalisation /\ [][NextNormalisation]_vars

-----------------------------------------------------------------------------
(* extraire_urls_depuis_reponse, tier by tier, for each provider that        *)
(* answered the question.  A reply is the list of the matches its patterns   *)
(* give, in the order the parser meets them.  Fields of a source that no     *)
(* later step reads (contexte, explication, position) are left out.          *)

UrlAccueil == <<"https://", "a", ".", "fr", "/">>

UrlMedia == <<"https://", "lemonde", ".", "fr", "/", "article">>

UrlOfficiel == <<"https://", "b", ".", "org", "/", "test">>

UrlExclue == <<"https://", "google", ".", "com", "/", "guide">>

UrlAvis == <<"https://", "c", ".", "fr", "/", "avis">>

UrlDossier == <<"https://", "d", ".", "fr", "/", "dossier">>

UrlSansScheme == <<"a", ".", "fr", "/", "guide">>

\* a match of a bare URL pattern
Bare(url) == [structure |-> FALSE, nom |-> <<>>, url |-> url]

\* a match of a pattern that cites the source by name
Cite(nom, url) == [structure |-> TRUE, nom |-> nom, url |-> url]

\* the matches of url_patterns in the first reply of a provider
ReponsesInitiales ==
    {<<>>,
     <<Bare(UrlSansScheme)>>,
     <<Bare(UrlPage)>>,
     <<Bare(UrlPage), Cite(<<"Guide", " ", "complet">>, UrlPageTracking)>>,
     <<Bare(UrlPage), Bare(UrlAccueil)>>,
     <<Bare(UrlPage), Bare(UrlMedia)>>,
     <<Bare(UrlExclue), Bare(UrlAccueil)>>,
     <<Bare(UrlPage), Bare(UrlMedia), Bare(UrlOfficiel), Bare(UrlAvis), Bare(UrlDossier)>>}

\* the matches of the structured pattern in the reply to a follow-up of
\* tier 2 or 3
ReponsesStructurees ==
    {<<>>,
     <<Cite(<<"Guide", " ", "complet">>, UrlPage)>>,
     <<Cite(<<"Accueil">>, UrlAccueil)>>,
     <<Cite(<<"Le", " ", "Monde">>, UrlMedia), Cite(<<"B">>, UrlOfficiel)>>}

\* the matches of the three patterns in the reply to the follow-up of tier 4
ReponsesSpecifiques ==
    {<<>>,
     <<Bare(UrlSansScheme)>>,
     <<Cite(<<"Guide", " ", "complet">>, UrlPage), Bare(UrlPage),
       Cite(<<"Le", " ", "Monde">>, UrlMedia)>>,
     <<Cite(<<"Le", " ", "Monde">>, UrlMedia), Cite(<<"Avis">>, UrlAvis)>>}

\* what provider.query gives to a follow-up prompt: an exception, no text, or
\* a reply
Suivis(replies) ==
    {[issue |-> "raise", matches |-> <<>>], [issue |-> "vide", matches |-> <<>>]}
    \cup [issue : {"reponse"}, matches : replies]

\* the sets of URLs that answer the HEAD request of _tester_accessibilite_url
Accessibilites == {{}, {UrlPage, UrlMedia, UrlOfficiel, UrlAvis, UrlDossier}}

\* the providers that answered, in the order of the dict of responses
Repondants ==
    {SelectSeq(ProviderOrder, LAMBDA p : p \in S) : S \in SUBSET Providers \ {{}}}

\* the instances of URLs a list of matches holds, as the spec describes them:
\* the tier that found them and whether the context cites the source
Instances(matches, tier) ==
    {[tier |-> tier,
      citation |-> matches[i].structure,
      nom |-> IF matches[i].structure THEN matches[i].nom
              ELSE _extraire_nom_depuis_url(matches[i].url),
      url |-> _nettoyer_url(matches[i].url)] : i \in 1..Len(matches)}

\* line 58: whether the explicit request for sources is made (mutation: only
\* when the initial parsing found nothing)
BesoinSourcesExplicitesSiVide(sources) == Len(sources) < 1

\* line 58: if len(sources) < 2
BesoinSourcesExplicites(sources) == Len(sources) < 2

\* line 63: if len(sources) < 1
BesoinCitationsForcees(sources) == Len(sources) < 1

\* line 72 (mutation: the request for specific URLs is always made)
BesoinUrlsSpecifiquesToujours(sources_validees) == TRUE

\* lines 71-72: urls_exploitables and if len(urls_exploitables) < 2
BesoinUrlsSpecifiques(sources_validees) ==
    Len(SelectSeq(sources_validees, LAMBDA s : s.exploitable_seo)) < 2

\* list.extend (mutation: the list is replaced by what the tier gives)
Remplacer(liste, ajout) == ajout

\* list.extend
Etendre(liste, ajout) == liste \o ajout

\* the number of sources a tier gave
NbParTier(sources, methode) ==
    Cardinality({k \in 1..Len(sources) : sources[k].methode_extraction = methode})

CascadeVide ==
    [pc |-> "tier1", sources |-> <<>>, sources_validees |-> <<>>,
     sources_finales |-> <<>>, prompts |-> <<>>, trouvees |-> {}]

InitCascade ==
    /\ InitRunOff
    /\ InitVoteOff
    /\ InitAutresOff
    /\ normalisation = Hors
    /\ consolidation = Hors
    /\ etude = Hors
    /\ \E repondants \in Repondants :
          cascade = [providers |-> repondants, i |-> 1,
                     bilan |-> [directs |-> 0, besoin_tier2 |-> 0, prompts_tier2 |-> 0]]
                    @@ CascadeVide

\* line 55: sources.extend(self._parser_urls_reponse_initiale(reponse_initiale))
ParserReponseInitiale ==
    /\ cascade.pc = "tier1"
    /\ \E matches \in ReponsesInitiales :
          cascade' = [cascade EXCEPT
                         !.pc = "tier2",
                         !.sources = _parser_urls_reponse_initiale(matches),
                         !.trouvees = Instances(matches, 1)]
    /\ UNCHANGED <<varsRun, varsVote, varsAutres, normalisation, consolidation, etude>>

\* lines 58-60: the explicit request for sources
DemanderSourcesExplicites ==
    /\ cascade.pc = "tier2"
    /\ IF BesoinSourcesExplicites(cascade.sources)
       THEN \E suivi \in Suivis(ReponsesStructurees) :
               cascade' = [cascade EXCEPT
                   !.pc = "tier3",
                   !.prompts = Append(@, [tier |-> 2, issue |-> suivi.issue]),
                   !.sources = Etendre(@, SourcesDuSuivi(suivi.issue,
                                       _parser_reponse_sources_structurees(suivi.matches))),
                   !.trouvees = @ \cup Instances(suivi.matches, 2)]
       ELSE cascade' = [cascade EXCEPT !.pc = "tier3"]
    /\ UNCHANGED <<varsRun, varsVote, varsAutres, normalisation, consolidation, etude>>

\* lines 63-65: the forced citation
ForcerCitationsSources ==
    /\ cascade.pc = "tier3"
    /\ IF BesoinCitationsForcees(cascade.sources)
       THEN \E suivi \in Suivis(ReponsesStructurees) :
               cascade' = [cascade EXCEPT
                   !.pc = "valider",
                   !.prompts = Append(@, [tier |-> 3, issue |-> suivi.issue]),
                   !.sources = Etendre(@, SourcesDuSuivi(suivi.issue,
                                       _parser_citations_forcees(suivi.matches))),
                   !.trouvees = @ \cup Instances(suivi.matches, 3)]
       ELSE cascade' = [cascade EXCEPT !.pc = "valider"]
    /\ UNCHANGED <<varsRun, varsVote, varsAutres, normalisation, consolidation, etude>>

\* line 68: sources_validees = self._valider_et_nettoyer_urls(sources)
ValiderEtNettoyer ==
    /\ cascade.pc = "valider"
    /\ \E accessibles \in Accessibilites :
          cascade' = [cascade EXCEPT
              !.pc = "tier4",
              !.sources_validees = _valider_et_nettoyer_urls(cascade.sources, accessibles)]
    /\ UNCHANGED <<varsRun, varsVote, varsAutres, normalisation, consolidation, etude>>

\* lines 71-77: the request for specific URLs, validated on their own
DemanderUrlsSpecifiques ==
    /\ cascade.pc = "tier4"
    /\ IF BesoinUrlsSpecifiques(cascade.sources_validees)
       THEN \E suivi \in Suivis(ReponsesSpecifiques), accessibles \in Accessibilites :
               LET sources_specifiques ==
                       SourcesDuSuivi(suivi.issue, _parser_urls_specifiques(suivi.matches))
               IN  /\ sources_specifiques = <<>> => accessibles = {}
                   /\ cascade' = [cascade EXCEPT
                          !.pc = "dedup",
                          !.prompts = Append(@, [tier |-> 4, issue |-> suivi.issue]),
                          !.sources_validees =
                              Etendre(@, _valider_et_nettoyer_urls(sources_specifiques,
                                                                   accessibles)),
                          !.trouvees = @ \cup Instances(suivi.matches, 4)]
       ELSE cascade' = [cascade EXCEPT !.pc = "dedup"]
    /\ UNCHANGED <<varsRun, varsVote, varsAutres, normalisation, consolidation, etude>>

\* lines 80-83: the final deduplication and the return
DeduplicationFinale ==
    /\ cascade.pc = "dedup"
    /\ cascade' = [cascade EXCEPT
           !.pc = "fait",
           !.sources_finales = _deduplication_finale(cascade.sources_validees),
           !.bilan.directs =
               IF NbParTier(cascade.sources_validees, "parsing_initial") >= 5
               THEN @ + 1 ELSE @,
           !.bilan.besoin_tier2 =
               IF NbParTier(cascade.sources, "parsing_initial") < 2 THEN @ + 1 ELSE @,
           !.bilan.prompts_tier2 =
               @ + Cardinality({k \in 1..Len(cascade.prompts) : cascade.prompts[k].tier = 2})]
    /\ UNCHANGED <<varsRun, varsVote, varsAutres, normalisation, consolidation, etude>>

\* the loop of analyser_question_multi_llm over the responses: the cascade of
\* the next provider
ProviderSuivant ==
    /\ cascade.pc = "fait"
    /\ cascade.i < Len(cascade.providers)
    /\ cascade' = [providers |-> cascade.providers, i |-> cascade.i + 1,
                   bilan |-> cascade.bilan] @@ CascadeVide
    /\ UNCHANGED <<varsRun, varsVote, varsAutres, normalisation, consolidation, etude>>

NextCascade ==
    \/ ParserReponseInitiale
    \/ DemanderSourcesExplicites
    \/ ForcerCitationsSources
    \/ ValiderEtNettoyer
    \/ DemanderUrlsSpecifiques
    \/ DeduplicationFinale
    \/ ProviderSuivant

SpecCascade == InitCascade /\ [][NextCascade]_vars

-----------------------------------------------------------------------------
(* The source extraction of a case study: extract_sources_multi_llm, then    *)
(* verify_urls_accessibility on the sources of all responses, as the         *)
(* dashboard page calls them.  Scores are in hundredths.                     *)

UrlWikipedia == <<"https://", "wikipedia", ".", "org", "/", "wiki">>

\* a match of url_patterns with the text around it
Trouve(avant, url) == [url |-> url, context |-> avant \o url]

\* the matches of url_patterns in a response
ReponsesEtude ==
    {<<>>,
     <<Trouve(<<"Source", ":", " ">>, UrlMedia)>>,
     <<Trouve(<<"selon", " ">>, UrlPage), Trouve(<<"url", ":", " ">>, UrlAccueil)>>,
     <<Trouve(<<"voir", " ">>, UrlWikipedia), Trouve(<<"selon", " ">>, UrlMedia)>>}

\* what _query_llm and _query_llm_follow_up give for one provider
IssuesEtude ==
    {[recu |-> FALSE, matches |-> <<>>, suivi |-> [recu |-> FALSE, matches |-> <<>>]]}
    \cup {[recu |-> TRUE, matches |-> m, suivi |-> [recu |-> FALSE, matches |-> <<>>]] :
              m \in ReponsesEtude}
    \cup {[recu |-> TRUE, matches |-> m, suivi |-> [recu |-> TRUE, matches |-> s]] :
              m \in ReponsesEtude, s \in ReponsesEtude \ {<<>>}}

\* providers of extract_sources_multi_llm when none is given
ProvidersEtude == <<"openai", "anthropic">>

\* all_sources of the dashboard page
ToutesSources(responses) ==
    IF responses = <<>> THEN <<>>
    ELSE LET positions == PositionsSources(responses, 1)
         IN  [i \in 1..Len(positions) |->
                 responses[positions[i][1]].sources[positions[i][2]]]

InitEtude ==
    /\ InitRunOff
    /\ InitVoteOff
    /\ InitAutresOff
    /\ normalisation = Hors
    /\ cascade = Hors
    /\ consolidation = Hors
    /\ etude = [pc |-> "extraction", llm_responses |-> <<>>, verified_sources |-> <<>>]

\* source_extractor.extract_sources_multi_llm(...)
ExtractSourcesMultiLlm ==
    /\ etude.pc = "extraction"
    /\ \E recues \in [1..Len(ProvidersEtude) -> IssuesEtude] :
          etude' = [etude EXCEPT
                       !.pc = "verification",
                       !.llm_responses = extract_sources_multi_llm(ProvidersEtude, recues)]
    /\ UNCHANGED <<varsRun, varsVote, varsAutres, normalisation, cascade, consolidation>>

\* source_extractor.verify_urls_accessibility(all_sources)
VerifyUrlsAccessibility ==
    /\ etude.pc = "verification"
    /\ LET all_sources == ToutesSources(etude.llm_responses)
       IN  \E statuts \in [1..Len(all_sources) -> StatutsHttp] :
              etude' = [etude EXCEPT
                           !.pc = "fait",
                           !.verified_sources =
                               verify_urls_accessibility(all_sources, statuts)]
    /\ UNCHANGED <<varsRun, varsVote, varsAutres, normalisation, cascade, consolidation>>

NextEtude == ExtractSourcesMultiLlm \/ VerifyUrlsAccessibility

SpecEtude == InitEtude /\ [][NextEtude]_vars

-----------------------------------------------------------------------------
(* The prompts of one run: the initial query of query_all_providers, then    *)
(* for each provider that answered the follow-ups of its cascade, then its   *)
(* sentiment prompt.  envois.log[p] lists what was sent to p, with the issue *)
(* of each call.                                                              *)

\* one call of provider.query with a retry after a failure (mutation)
EnvoiAvecReprise(etape, issue) ==
    IF issue \in {"raise", "vide", "http_error", "timeout"}
    THEN <<[etape |-> etape, issue |-> issue], [etape |-> etape, issue |-> issue]>>
    ELSE <<[etape |-> etape, issue |-> issue]>>

\* one call of provider.query: the prompt of a stage and what came of it
Envoi(etape, issue) == <<[etape |-> etape, issue |-> issue]>>

\* the prompt of a follow-up, when its condition holds
EnvoiSi(besoin, etape, issue) == IF besoin THEN Envoi(etape, issue) ELSE <<>>

\* extraire_urls_depuis_reponse from the validation's result on: tier 4 when
\* fewer than two exploitable sources are left, then the final deduplication
SuiteTier4(sources_validees, suivi4, accessibles, prompts) ==
    LET besoin4 == BesoinUrlsSpecifiques(sources_validees)
    IN  [sources_finales |->
             _deduplication_finale(
                 IF besoin4
                 THEN Etendre(sources_validees,
                          _valider_et_nettoyer_urls(
                              SourcesDuSuivi(suivi4.issue,
                                  _parser_urls_specifiques(suivi4.matches)),
                              accessibles))
                 ELSE sources_validees),
         prompts |-> prompts \o EnvoiSi(besoin4, "tier4", suivi4.issue)]

\* extraire_urls_depuis_reponse from tier 3 on: the forced citations when no
\* source is known, then the validation
SuiteTier3(sources2, suivi3, suivi4, accessibles, prompts) ==
    LET besoin3 == BesoinCitationsForcees(sources2)
    IN  SuiteTier4(
            _valider_et_nettoyer_urls(
                IF besoin3
                THEN Etendre(sources2, SourcesDuSuivi(suivi3.issue,
                         _parser_citations_forcees(suivi3.matches)))
                ELSE sources2,
                accessibles),
            suivi4, accessibles,
            prompts \o EnvoiSi(besoin3, "tier3", suivi3.issue))

\* extraire_urls_depuis_reponse from tier 2 on: the explicit request when
\* fewer than two sources are known
SuiteTier2(sources1, suivi2, suivi3, suivi4, accessibles) ==
    LET besoin2 == BesoinSourcesExplicites(sources1)
    IN  SuiteTier3(
            IF besoin2
            THEN Etendre(sources1, SourcesDuSuivi(suivi2.issue,
                     _parser_reponse_sources_structurees(suivi2.matches)))
            ELSE sources1,
            suivi3, suivi4, accessibles,
            EnvoiSi(besoin2, "tier2", suivi2.issue))

\* URLExtractor.extraire_urls_depuis_reponse for one provider: the sources it
\* returns and the prompts it sent, given the matches of the initial response,
\* what the three follow-ups give and which URLs answer the HEAD requests
extraire_urls_depuis_reponse(matches, suivi2, suivi3, suivi4, accessibles) ==
    SuiteTier2(_parser_urls_reponse_initiale(matches),
               suivi2, suivi3, suivi4, accessibles)

\* what one call of extraire_urls_depuis_reponse can return and send
CascadesPossibles ==
    {extraire_urls_depuis_reponse(matches, suivi2, suivi3, suivi4, accessibles) :
        matches \in ReponsesInitiales,
        suivi2 \in Suivis(ReponsesStructurees),
        suivi3 \in Suivis(ReponsesStructurees),
        suivi4 \in Suivis(ReponsesSpecifiques),
        accessibles \in Accessibilites}

\* the prompts query_all_providers sends: one to each available provider
EnvoisInitiaux(disponibles, outcomes) ==
    [p \in Providers |->
        IF p \in disponibles THEN Envoi("initial", outcomes[p]) ELSE <<>>]

\* the provider names of a list, in the order of the dict of responses
Repondus(outcomes) ==
    SelectSeq(ProviderOrder,
              LAMBDA p : p \in DOMAIN outcomes /\ outcomes[p] = "ok")

InitEnvois ==
    /\ InitRunOff
    /\ InitVoteOff
    /\ normalisation = Hors
    /\ cascade = Hors
    /\ consolidation = Hors
    /\ etude = Hors
    /\ invocation = Hors
    /\ case_studies_dir = Hors
    /\ \E disponibles \in {S \in SUBSET Providers : Cardinality(S) <= MaxDisponibles} :
          envois = [pc |-> "collecte", disponibles |-> disponibles,
                    utilises |-> <<>>, i |-> 1, avec_sujets |-> {},
                    log |-> [p \in Providers |-> <<>>]]

\* MultiLLMAnalyzer.__init__ and step 1 of analyser_question_complete: nothing
\* is sent without a provider; otherwise query_all_providers
QueryAllProviders ==
    /\ envois.pc = "collecte"
    /\ IF ~has_available_providers(envois.disponibles)
       THEN envois' = [envois EXCEPT !.pc = "fait"]
       ELSE \E outcomes \in [envois.disponibles -> NetworkOutcomes] :
               envois' = [envois EXCEPT
                   !.pc = IF Repondus(outcomes) = <<>> THEN "fait" ELSE "extraction",
                   !.utilises = Repondus(outcomes),
                   !.log = EnvoisInitiaux(envois.disponibles, outcomes)]
    /\ UNCHANGED <<varsRun, varsVote, normalisation, cascade, consolidation, etude,
                   invocation, case_studies_dir>>

\* step 2, one iteration: the cascade of the provider, and whether the
\* provider's response gave brands
ExtraireUrls ==
    /\ envois.pc = "extraction"
    /\ LET provider == envois.utilises[envois.i]
       IN  \E extraites \in CascadesPossibles, avec_marques \in BOOLEAN :
              envois' = [envois EXCEPT
                  !.log[provider] = @ \o extraites.prompts,
                  !.avec_sujets =
                      IF avec_marques \/ extraites.sources_finales # <<>>
                      THEN @ \cup {provider} ELSE @,
                  !.i = IF envois.i = Len(envois.utilises) THEN 1 ELSE @ + 1,
                  !.pc = IF envois.i = Len(envois.utilises)
                         THEN "sentiment" ELSE "extraction"]
    /\ UNCHANGED <<varsRun, varsVote, normalisation, cascade, consolidation, etude,
                   invocation, case_studies_dir>>

\* step 3, one iteration: analyser_sentiment_batch sends its prompt unless the
\* provider has neither brands nor sources
EnvoyerSentiment ==
    /\ envois.pc = "sentiment"
    /\ LET provider == envois.utilises[envois.i]
       IN  \E outcome \in NetworkOutcomes :
              envois' = [envois EXCEPT
                  !.log[provider] =
                      @ \o EnvoiSi(provider \in envois.avec_sujets
                                   /\ provider \in envois.disponibles,
                                   "sentiment", outcome),
                  !.i = IF envois.i = Len(envois.utilises) THEN @ ELSE @ + 1,
                  !.pc = IF envois.i = Len(envois.utilises)
                         THEN "fait" ELSE "sentiment"]
    /\ UNCHANGED <<varsRun, varsVote, normalisation, cascade, consolidation, etude,
                   invocation, case_studies_dir>>

NextEnvois == QueryAllProviders \/ ExtraireUrls \/ EnvoyerSentiment

SpecEnvois == InitEnvois /\ [][NextEnvois]_vars

-----------------------------------------------------------------------------
(* _est_url_exploitable_seo on its own: one call on a URL of the domain      *)
(* a.fr with a path and possibly a query                                     *)

\* what a path can be made of
AlphabetChemin ==
    {"/", "index", "contact", "conditions", "Guide", "bank", "a", "2024"}

\* the paths urlparse can give for a URL with a domain: empty, or from a slash
Chemins == {c \in Chaines(AlphabetChemin) : c = <<>> \/ Head(c) = "/"}

\* the queries of the URLs
Queries == {<<>>, <<"?", "page", "=", "2">>, <<"?", "utm_source", "=", "1">>}

UrlsAClasser ==
    {<<"https://", "a", ".", "fr">> \o chemin \o parametres :
        chemin \in Chemins, parametres \in Queries}

InitExploitable ==
    /\ InitRunOff
    /\ InitVoteOff
    /\ normalisation = Hors
    /\ cascade = Hors
    /\ consolidation = Hors
    /\ etude = Hors
    /\ envois = Hors
    /\ case_studies_dir = Hors
    /\ \E url \in UrlsAClasser :
          invocation = [pc |-> "appel", url |-> url, resultat |-> <<FALSE, "">>]

\* the call
EstUrlExploitableSeo ==
    /\ invocation.pc = "appel"
    /\ invocation' = [invocation EXCEPT
           !.pc = "retour",
           !.resultat = _est_url_exploitable_seo(invocation.url)]
    /\ UNCHANGED <<varsRun, varsVote, normalisation, cascade, consolidation, etude,
                   envois, case_studies_dir>>

SpecExploitable == InitExploitable /\ [][EstUrlExploitableSeo]_vars

-----------------------------------------------------------------------------
(* _trouver_entite_correspondante on its own: one call with the label of a   *)
(* parsed block and the subjects that were submitted                         *)

\* the most subjects of one call
MaxSujets == 2

\* the names subjects and labels can have
NomsSujets ==
    {<<"bank">>, <<"hello", " ", "bank">>, <<"Hello", " ", "bank">>, <<"x">>,
     <<"bank", " ", "x">>, <<"hello", " ", "bank", " ", "x">>}

\* the lists of subjects with distinct names
ListesSujets ==
    {liste \in UNION {[1..n -> [nom : NomsSujets]] : n \in 1..MaxSujets} :
        \A i, j \in 1..Len(liste) : liste[i] = liste[j] => i = j}

InitCorrespondance ==
    /\ InitRunOff
    /\ InitVoteOff
    /\ normalisation = Hors
    /\ cascade = Hors
    /\ consolidation = Hors
    /\ etude = Hors
    /\ envois = Hors
    /\ case_studies_dir = Hors
    /\ \E nom_recherche \in NomsSujets, entites \in ListesSujets :
          invocation = [pc |-> "appel", nom_recherche |-> nom_recherche,
                        entites |-> entites, resultat |-> 0]

\* the call; resultat is the index of the subject returned, 0 for None
TrouverEntiteCorrespondante ==
    /\ invocation.pc = "appel"
    /\ invocation' = [invocation EXCEPT
           !.pc = "retour",
           !.resultat = _trouver_entite_correspondante(invocation.nom_recherche,
                                                       invocation.entites)]
    /\ UNCHANGED <<varsRun, varsVote, normalisation, cascade, consolidation, etude,
                   envois, case_studies_dir>>

SpecCorrespondance == InitCorrespondance /\ [][TrouverEntiteCorrespondante]_vars

-----------------------------------------------------------------------------
(* The type_entite of a brand in two response texts: the enrichment of       *)
(* _deduplication_et_enrichissement_marques computes the context of the      *)
(* brand and its type, once for each text                                    *)

\* rayon of _extraire_contexte_marque
rayon == 150

\* a stretch of 150 characters that holds no keyword
Remplissage ==
    "......................................................................................................................................................"

\* the first character of element i of a string, counted from 0
DebutElement(s, i) == Longueur(SubSeq(s, 1, i - 1))

\* texte.lower().find(marque.lower()): the element where the brand starts, 0
\* when it is absent
Find(texte, marque) ==
    LET t == Lower(texte)
        m == Lower(marque)
        places == {i \in 1..(Len(t) - Len(m) + 1) : SubSeq(t, i, i + Len(m) - 1) = m}
    IN  IF places = {} THEN 0 ELSE CHOOSE i \in places : \A j \in places : i <= j

\* InformationExtractor._extraire_contexte_marque: texte[debut:fin], as the
\* elements of the text with the characters of each that the slice keeps
\* (the texts of the model hold no blank for strip to remove)
_extraire_contexte_marque(texte, marque) ==
    LET place == Find(texte, marque)
        index == DebutElement(texte, place)
        debut == IF index - rayon > 0 THEN index - rayon ELSE 0
        fin == IF index + Longueur(marque) + rayon < Longueur(texte)
               THEN index + Longueur(marque) + rayon ELSE Longueur(texte)
        Coupe(i) ==
            LET d == DebutElement(texte, i)
                f == d + Len(texte[i])
            IN  [element |-> texte[i],
                 de |-> IF d < debut THEN debut - d ELSE 0,
                 a |-> IF f > fin THEN fin - d ELSE f - d]
        gardes == {i \in 1..Len(texte) :
                      /\ DebutElement(texte, i) < fin
                      /\ DebutElement(texte, i) + Len(texte[i]) > debut}
    IN  IF place = 0 THEN <<>>
        ELSE [k \in 1..Cardinality(gardes) |->
                 Coupe(CHOOSE i \in gardes :
                          Cardinality({j \in gardes : j < i}) = k - 1)]

\* any(mot in contexte_lower for mot in mots)
ContientMot(contexte_lower, mots) ==
    \E i \in 1..Len(contexte_lower) : contexte_lower[i] \in mots

\* InformationExtractor._classifier_type_entite; the word neobanque holds the
\* word banque
_classifier_type_entite(nom, contexte) ==
    LET contexte_lower == Lower(contexte)
    IN  IF ContientMot(contexte_lower,
                       {"banque", "credit", "compte", "carte", "neobanque"})
        THEN "banque"
        ELSE IF ContientMot(contexte_lower, {"assurance", "assureur", "mutuelle"})
        THEN "assurance"
        ELSE IF ContientMot(contexte_lower, {"investissement", "bourse", "trading"})
        THEN "investissement"
        ELSE IF ContientMot(contexte_lower, {"neobanque", "fintech"})
        THEN "neobanque"
        ELSE "entreprise"

\* lines 196-197: the context and the type of a brand of a text
EnrichirType(nom, texte_complet) ==
    [contexte |-> _extraire_contexte_marque(texte_complet, nom),
     type_entite |-> _classifier_type_entite(nom, texte_complet)]

\* the most elements of a response text
MaxTexte == 3

\* the brand whose type is computed
MarqueClassee == <<"B">>

\* the response texts that mention the brand
TextesAvecMarque ==
    {t \in UNION {[1..n -> {"B", Remplissage, "banque", "assurance", "fintech"}] :
                     n \in 1..MaxTexte} :
        Find(t, MarqueClassee) # 0}

InitClassification ==
    /\ InitRunOff
    /\ InitVoteOff
    /\ normalisation = Hors
    /\ cascade = Hors
    /\ consolidation = Hors
    /\ etude = Hors
    /\ envois = Hors
    /\ case_studies_dir = Hors
    /\ \E texte1 \in TextesAvecMarque, texte2 \in TextesAvecMarque :
          invocation = [pc |-> "appel", nom |-> MarqueClassee,
                        textes |-> <<texte1, texte2>>,
                        marques |-> <<>>]

\* the enrichment of the brand in the one text and in the other
EnrichirMarque ==
    /\ invocation.pc = "appel"
    /\ invocation' = [invocation EXCEPT
           !.pc = "retour",
           !.marques = <<EnrichirType(invocation.nom, invocation.textes[1]),
                         EnrichirType(invocation.nom, invocation.textes[2])>>]
    /\ UNCHANGED <<varsRun, varsVote, normalisation, cascade, consolidation, etude,
                   envois, case_studies_dir>>

SpecClassification == InitClassification /\ [][EnrichirMarque]_vars

-----------------------------------------------------------------------------
(* _advanced_url_validation on its own, on SourceURL objects built from      *)
(* URLs as test_follow_up_extraction builds them                             *)

\* the most sources of one call
MaxSources == 2

\* the URLs of the sources: those of test_follow_up_extraction, an official
\* page of a social network, a short URL and a URL that names a shortener in
\* its path
UrlsAValider ==
    {<<"https://", "www", ".", "amf", ".", "org", "/", "guide">>,
     <<"https://", "google", ".", "com", "/", "search", "?", "q">>,
     <<"https://", "facebook", ".", "com", "/", "page">>,
     <<"www", ".", "moneyvox", ".", "fr">>,
     <<"https://", "a", ".", "co", "/", "short">>,
     <<"https://", "www", ".", "capital", ".", "fr", "/", "argent">>,
     <<"https://", "facebook", ".", "com", "/", "pages", "/", "b">>,
     <<"https://", "a", ".", "fr", "/">>,
     <<"https://", "lemonde", ".", "fr", "/", "a", ".", "co">>}

\* SourceURL(url=url, citation_order=i+1, ..., extraction_confidence=...)
SourcesAValider ==
    UNION {[1..n -> [url : UrlsAValider, citation_order : {0},
                     extraction_confidence : {50, 70}]] : n \in 1..MaxSources}

InitValidation ==
    /\ InitRunOff
    /\ InitVoteOff
    /\ normalisation = Hors
    /\ cascade = Hors
    /\ consolidation = Hors
    /\ etude = Hors
    /\ envois = Hors
    /\ case_studies_dir = Hors
    /\ \E mock_sources \in SourcesAValider :
          invocation = [pc |-> "appel", sources |-> mock_sources, validated |-> <<>>]

\* validated = extractor._advanced_url_validation(mock_sources)
AdvancedUrlValidation ==
    /\ invocation.pc = "appel"
    /\ invocation' = [invocation EXCEPT
           !.pc = "retour",
           !.validated = _advanced_url_validation(invocation.sources)]
    /\ UNCHANGED <<varsRun, varsVote, normalisation, cascade, consolidation, etude,
                   envois, case_studies_dir>>

SpecValidation == InitValidation /\ [][AdvancedUrlValidation]_vars

-----------------------------------------------------------------------------
(* CaseStudyManager: the JSON files of the directories active and completed, *)
(* the CaseStudy objects the caller holds, and what the last call returned.  *)
(* A file holds the status and the sources_analyzed counter of its case; the *)
(* dates of a case are left out.                                             *)

\* the most cases that are created
MaxCases == 2

\* the ids uuid4 gives, in the order of creation
CaseIds == 1..MaxCases

\* the members of CaseStatus that update_status is called with, and DRAFT
CaseStatus == {"DRAFT", "ANALYZING", "COMPLETED"}

\* CaseStatus.value
StatusValue(status) ==
    CASE status = "DRAFT" -> "draft"
      [] status = "ANALYZING" -> "analyzing"
      [] status = "COMPLETED" -> "completed"

\* CaseStatus(value)
StatusOf(value) ==
    CASE value = "draft" -> "DRAFT"
      [] value = "analyzing" -> "ANALYZING"
      [] value = "completed" -> "COMPLETED"

\* the values case_study.sources_analyzed is set to
Compteurs == {0, 1}

\* CaseStudyManager._serialize_case_study
_serialize_case_study(case_study) ==
    [status |-> StatusValue(case_study.status),
     sources_analyzed |-> case_study.sources_analyzed]

\* CaseStudyManager._deserialize_case_study
_deserialize_case_study(data) ==
    [status |-> StatusOf(data.status), sources_analyzed |-> data.sources_analyzed]

\* del d[cle]
DictDel(d, cle) == [k \in DOMAIN d \ {cle} |-> d[k]]

\* CaseStudyManager._save_case_study: the file is written in the directory the
\* status selects
_save_case_study(dirs, case_id, case_study) ==
    IF case_study.status = "COMPLETED"
    THEN [active |-> dirs.active,
          completed |-> DictSet(dirs.completed, case_id,
                                _serialize_case_study(case_study))]
    ELSE [active |-> DictSet(dirs.active, case_id, _serialize_case_study(case_study)),
          completed |-> dirs.completed]

\* the number of files of a directory that satisfy a test
NbFichiers(dir, Test(_)) == Cardinality({k \in DOMAIN dir : Test(dir[k])})

\* sum(c['sources_analyzed'] for c in all_cases) over the files of a directory
SommeAnalysees(dir) ==
    Cardinality({k \in DOMAIN dir : dir[k].sources_analyzed = 1})

\* CaseStudyManager.get_case_statistics over list_case_studies, which reads
\* every file of active and of completed
get_case_statistics(dirs) ==
    [total_cases |-> Cardinality(DOMAIN dirs.active) + Cardinality(DOMAIN dirs.completed),
     active_cases |->
         NbFichiers(dirs.active, LAMBDA data : data.status # StatusValue("COMPLETED"))
         + NbFichiers(dirs.completed, LAMBDA data : data.status # StatusValue("COMPLETED")),
     completed_cases |->
         NbFichiers(dirs.active, LAMBDA data : data.status = StatusValue("COMPLETED"))
         + NbFichiers(dirs.completed, LAMBDA data : data.status = StatusValue("COMPLETED")),
     total_sources_analyzed |->
         SommeAnalysees(dirs.active) + SommeAnalysees(dirs.completed)]

\* the statistics of no call
StatsVides ==
    [total_cases |-> 0, active_cases |-> 0, completed_cases |-> 0,
     total_sources_analyzed |-> 0]

\* the object of no call
CaseVide == [status |-> "DRAFT", sources_analyzed |-> 0]

\* what a call returned: the operation, its id, whether it gave something, and
\* the object or the statistics it gave
Retour(op, id, ok, case_study, stats) ==
    [op |-> op, id |-> id, ok |-> ok, case_study |-> case_study, stats |-> stats]

\* CaseStudyManager.load_case_study: the file of active, else of completed
load_case_study(dirs, case_id) ==
    IF case_id \in DOMAIN dirs.active
    THEN Retour("load", case_id, TRUE, _deserialize_case_study(dirs.active[case_id]),
                StatsVides)
    ELSE IF case_id \in DOMAIN dirs.completed
    THEN Retour("load", case_id, TRUE, _deserialize_case_study(dirs.completed[case_id]),
                StatsVides)
    ELSE Retour("load", case_id, FALSE, CaseVide, StatsVides)

\* the two directories of a record of the manager
Dirs(m) == [active |-> m.active, completed |-> m.completed]

InitCaseManager ==
    /\ InitRunOff
    /\ InitVoteOff
    /\ normalisation = Hors
    /\ cascade = Hors
    /\ consolidation = Hors
    /\ etude = Hors
    /\ envois = Hors
    /\ invocation = Hors
    /\ case_studies_dir =
           [active |-> DictVide, completed |-> DictVide, objets |-> DictVide,
            supprimes |-> {}, sauvegardes |-> DictVide,
            dernier |-> Retour("aucun", 0, FALSE, CaseVide, StatsVides)]

\* manager.create_case_study(...): a DRAFT case under a new id, saved at once
CreateCaseStudy ==
    /\ \E case_id \in CaseIds :
          /\ case_id \notin DOMAIN case_studies_dir.objets \cup case_studies_dir.supprimes
          /\ \A autre \in CaseIds :
                autre < case_id =>
                   autre \in DOMAIN case_studies_dir.objets \cup case_studies_dir.supprimes
          /\ LET case_study == [status |-> "DRAFT", sources_analyzed |-> 0]
                 dirs == _save_case_study(Dirs(case_studies_dir), case_id, case_study)
             IN  case_studies_dir' = [case_studies_dir EXCEPT
                     !.active = dirs.active,
                     !.completed = dirs.completed,
                     !.objets = DictSet(@, case_id, case_study),
                     !.sauvegardes = DictSet(@, case_id, _serialize_case_study(case_study)),
                     !.dernier = Retour("create", case_id, TRUE, case_study, StatsVides)]
    /\ UNCHANGED <<varsRun, varsVote, normalisation, cascade, consolidation, etude,
                   envois, invocation>>

\* case_study.update_status(status), on the object the caller holds
UpdateStatus ==
    /\ \E case_id \in DOMAIN case_studies_dir.objets, status \in CaseStatus \ {"DRAFT"} :
          /\ case_studies_dir.objets[case_id].status # status
          /\ case_studies_dir' = [case_studies_dir EXCEPT
                 !.objets[case_id].status = status,
                 !.dernier = Retour("update_status", case_id, TRUE,
                                    [case_studies_dir.objets[case_id]
                                        EXCEPT !.status = status], StatsVides)]
    /\ UNCHANGED <<varsRun, varsVote, normalisation, cascade, consolidation, etude,
                   envois, invocation>>

\* case_study.sources_analyzed = len(...)
SetSourcesAnalyzed ==
    /\ \E case_id \in DOMAIN case_studies_dir.objets, n \in Compteurs :
          /\ case_studies_dir.objets[case_id].sources_analyzed # n
          /\ case_studies_dir' = [case_studies_dir EXCEPT
                 !.objets[case_id].sources_analyzed = n,
                 !.dernier = Retour("sources_analyzed", case_id, TRUE,
                                    [case_studies_dir.objets[case_id]
                                        EXCEPT !.sources_analyzed = n], StatsVides)]
    /\ UNCHANGED <<varsRun, varsVote, normalisation, cascade, consolidation, etude,
                   envois, invocation>>

\* manager.update_case_study(case_study)
UpdateCaseStudy ==
    /\ \E case_id \in DOMAIN case_studies_dir.objets :
          LET case_study == case_studies_dir.objets[case_id]
              dirs == _save_case_study(Dirs(case_studies_dir), case_id, case_study)
          IN  case_studies_dir' = [case_studies_dir EXCEPT
                  !.active = dirs.active,
                  !.completed = dirs.completed,
                  !.sauvegardes = DictSet(@, case_id, _serialize_case_study(case_study)),
                  !.dernier = Retour("update", case_id, TRUE, case_study, StatsVides)]
    /\ UNCHANGED <<varsRun, varsVote, normalisation, cascade, consolidation, etude,
                   envois, invocation>>

\* manager.archive_case_study(case_id): the file of active is renamed into
\* completed, over the file that may be there
ArchiveCaseStudy ==
    /\ \E case_id \in CaseIds :
          IF case_id \in DOMAIN case_studies_dir.active
          THEN case_studies_dir' = [case_studies_dir EXCEPT
                   !.active = DictDel(@, case_id),
                   !.completed = DictSet(@, case_id, case_studies_dir.active[case_id]),
                   !.dernier = Retour("archive", case_id, TRUE, CaseVide, StatsVides)]
          ELSE case_studies_dir' = [case_studies_dir EXCEPT
                   !.dernier = Retour("archive", case_id, FALSE, CaseVide, StatsVides)]
    /\ UNCHANGED <<varsRun, varsVote, normalisation, cascade, consolidation, etude,
                   envois, invocation>>

\* manager.delete_case_study(case_id): the first file found is removed; the
\* caller drops the object of a case it has deleted
DeleteCaseStudy ==
    /\ \E case_id \in CaseIds :
          IF case_id \in DOMAIN case_studies_dir.active
          THEN case_studies_dir' = [case_studies_dir EXCEPT
                   !.active = DictDel(@, case_id),
                   !.objets = DictDel(@, case_id),
                   !.supprimes = @ \cup {case_id},
                   !.dernier = Retour("delete", case_id, TRUE, CaseVide, StatsVides)]
          ELSE IF case_id \in DOMAIN case_studies_dir.completed
          THEN case_studies_dir' = [case_studies_dir EXCEPT
                   !.completed = DictDel(@, case_id),
                   !.objets = DictDel(@, case_id),
                   !.supprimes = @ \cup {case_id},
                   !.dernier = Retour("delete", case_id, TRUE, CaseVide, StatsVides)]
          ELSE case_studies_dir' = [case_studies_dir EXCEPT
                   !.dernier = Retour("delete", case_id, FALSE, CaseVide, StatsVides)]
    /\ UNCHANGED <<varsRun, varsVote, normalisation, cascade, consolidation, etude,
                   envois, invocation>>

\* manager.load_case_study(case_id)
LoadCaseStudy ==
    /\ \E case_id \in CaseIds :
          case_studies_dir' = [case_studies_dir EXCEPT
              !.dernier = load_case_study(Dirs(case_studies_dir), case_id)]
    /\ UNCHANGED <<varsRun, varsVote, normalisation, cascade, consolidation, etude,
                   envois, invocation>>

\* manager.get_case_statistics()
GetCaseStatistics ==
    /\ case_studies_dir' = [case_studies_dir EXCEPT
           !.dernier = Retour("stats", 0, TRUE, CaseVide,
                              get_case_statistics(Dirs(case_studies_dir)))]
    /\ UNCHANGED <<varsRun, varsVote, normalisation, cascade, consolidation, etude,
                   envois, invocation>>

NextCaseManager ==
    \/ CreateCaseStudy
    \/ UpdateStatus
    \/ SetSourcesAnalyzed
    \/ UpdateCaseStudy
    \/ ArchiveCaseStudy
    \/ DeleteCaseStudy
    \/ LoadCaseStudy
    \/ GetCaseStatistics

SpecCaseManager == InitCaseManager /\ [][NextCaseManager]_vars

-----------------------------------------------------------------------------
(* Helpers of the properties *)

\* the elements of a list
Elems(liste) == {liste[i] : i \in 1..Len(liste)}

\* the run has returned to the caller of analyser_question_multi_llm
Retourne == pc = "retour"

\* query_all_providers has returned
CollecteFaite == pc \in {"extraction", "sentiment", "consolidation", "retour"}
                 /\ available_providers # {}

\* the backends whose initial query came back with a body
OntRepondu == {p \in DOMAIN issues : issues[p] = "ok"}

\* the number of entries of the given sentiment in votes
NbVotes(s) == Cardinality({i \in 1..Len(votes) : votes[i].data.sentiment = s})

\* the lists that hold the entries of a list in another order
Ordres(liste) ==
    {[i \in 1..Len(liste) |-> liste[f[i]]] :
        f \in {g \in [1..Len(liste) -> 1..Len(liste)] :
                  \A i, j \in 1..Len(liste) : g[i] = g[j] => i = j}}

\* the sum of the vote counts of a distribution
SommeDistribution(distribution) ==
    distribution["positif"] + distribution["neutre"] + distribution["negatif"]

\* total_providers of a consensus entry, 0 for the entry of an empty dict
TotalVoters(entree) ==
    IF "total_providers" \in DOMAIN entree THEN entree.total_providers ELSE 0

\* the backends whose sentiment dict holds a record under the key
Votants(sentiments_par_provider, cle) ==
    {p \in DOMAIN sentiments_par_provider : cle \in DOMAIN sentiments_par_provider[p]}

\* the backends that produced a sentiment record for the source of the URL
VotantsSource(url) ==
    {p \in DOMAIN sentiment_sources :
        \E src \in Elems(sources_extraites[p]) :
            src.url = url /\ src.nom \in DOMAIN sentiment_sources[p]}

\* the normalized URL of a page: without tracking parameters, in lower case,
\* without trailing slash
UrlCanonique(url) == RStrip(Lower(SupprimerTracking(url)), {"/"})

\* the consolidated view of the entity lists has been computed
Consolidee(key_field) ==
    consolidation.pc # "entites" /\ consolidation.key_field = key_field

\* the providers whose list holds an entity that satisfies Correspond
Contributeurs(Correspond(_)) ==
    {p \in DOMAIN consolidation.entites_par_provider :
        \E i \in 1..Len(consolidation.entites_par_provider[p]) :
            Correspond(consolidation.entites_par_provider[p][i])}

\* the sum of the mentions of the entities of a list that satisfy Correspond
SommeMentions(entites, Correspond(_)) ==
    Somme([i \in 1..Len(entites) |->
              IF Correspond(entites[i]) THEN entites[i].mentions ELSE 0])

\* the entities of all the providers, one list after the other
RECURSIVE ToutesLesListes(_, _)
ToutesLesListes(ordre, entites_par_provider) ==
    IF ordre = <<>> THEN <<>>
    ELSE entites_par_provider[Head(ordre)]
             \o ToutesLesListes(Tail(ordre), entites_par_provider)

\* the records of a consolidated list, with the set of their contributors
Canoniques(toutes) ==
    {[cle |-> toutes[i].cle, entite |-> toutes[i].entite,
      providers |-> Elems(toutes[i].providers_detection)] : i \in 1..Len(toutes)}

\* whether the cascade of the current provider has sent the prompt of a tier
Envoye(tier) ==
    \E k \in 1..Len(cascade.prompts) : cascade.prompts[k].tier = tier

\* the distinct URLs of a list of candidates that the validation accepts as
\* exploitable
ExploitablesDistinctes(sources) ==
    LET validees == _valider_et_nettoyer_urls(sources, {})
    IN  {validees[k].url : k \in 1..Len(validees)}

\* whether a list starts with another
EstPrefixe(debut, liste) ==
    Len(debut) <= Len(liste) /\ SubSeq(liste, 1, Len(debut)) = debut

\* the distinct exploitable URLs a cascade holds: those of its candidates
\* before the validation, of sources_validees after it, of sources_finales at
\* the return
Tenues(c) ==
    IF c.pc \in {"tier1", "tier2", "tier3", "valider"}
    THEN ExploitablesDistinctes(c.sources)
    ELSE IF c.pc \in {"tier4", "dedup"}
    THEN {c.sources_validees[k].url : k \in 1..Len(c.sources_validees)}
    ELSE {c.sources_finales[k].url : k \in 1..Len(c.sources_finales)}

\* the tier that gives a source its methode_extraction
TierDe(methode) ==
    CASE methode = "parsing_initial" -> 1
      [] methode = "demande_explicite" -> 2
      [] methode = "citation_forcee" -> 3
      [] methode = "demande_specifique" -> 4

\* the instances of URLs the cascade found that a record of a source list
\* stands for
InstancesDe(source) ==
    {t \in cascade.trouvees :
        /\ t.url = source.url
        /\ t.nom = source.nom
        /\ t.tier = TierDe(source.methode_extraction)}

\* extraction_confidence as the specification describes it: a base that
\* depends on the tier, raised when the context cites the source.  Of two
\* instances of one tier, the one in a citation has the higher confidence.
PlusConfiante(a, b) == a.tier = b.tier /\ a.citation /\ ~b.citation

\* the rank of the trust in a domain
RangFiabilite(fiabilite_domaine) ==
    CASE fiabilite_domaine = "tres elevee" -> 3
      [] fiabilite_domaine = "elevee" -> 2
      [] fiabilite_domaine = "moyenne" -> 1
      [] OTHER -> 0

\* whether the URLs of a list are pairwise distinct
UrlsDistinctes(liste) ==
    \A k, l \in 1..Len(liste) : liste[k].url = liste[l].url => k = l

-----------------------------------------------------------------------------
(* Properties *)

\* C1: when some backend is available and none returns a response to the
\* initial query, the run returns an error to its caller.
C1_NoBackendsResponded ==
    (Retourne /\ available_providers # {} /\ providers_utilises = <<>>)
        => (retour = "erreur" \/ erreur_critique)

C3_FailedAbsent ==
    CollecteFaite => DOMAIN reponses = OntRepondu

\* C3 amended: query_all_providers queries every available backend once and
\* returns an entry for each of them; the entry of a backend whose query failed
\* or timed out is None, and the backends with another entry, which are the
\* providers_utilises of the run, are exactly the backends that answered.
C3_FailedIsNone ==
    CollecteFaite =>
        /\ DOMAIN issues = available_providers
        /\ DOMAIN reponses = available_providers
        /\ \A p \in available_providers : (reponses[p] = None) <=> (p \notin OntRepondu)
        /\ Elems(providers_utilises) = OntRepondu

\* C3 witness: one backend failed, another answered with an empty text.
C3_Witness ==
    /\ CollecteFaite
    /\ \E p \in available_providers : reponses[p] = None
    /\ \E p \in available_providers : reponses[p] = ""

\* C4: a backend whose sentiment reply was received has a record for every
\* subject it was asked about: the parsed one, or the fallback record (neutral,
\* 30) when no block of the reply matches the subject.
C4_FallbackForOmitted ==
    \A p \in DOMAIN sentiment_recu :
        sentiment_recu[p] = "reponse" =>
            /\ \A m \in Elems(marques_detectees[p]) :
                  /\ m.nom \in DOMAIN sentiment_marques[p]
                  /\ \/ sentiment_marques[p][m.nom].methode_analyse = "llm_specialise"
                     \/ sentiment_marques[p][m.nom] = RecordFallback
            /\ \A src \in Elems(sources_extraites[p]) :
                  /\ src.nom \in DOMAIN sentiment_sources[p]
                  /\ \/ sentiment_sources[p][src.nom].methode_analyse = "llm_specialise"
                     \/ sentiment_sources[p][src.nom] = RecordFallback

\* C5: every record of a backend whose sentiment query gave no reply is
\* neutral, of confidence at most 30 and tagged fallback_basic, one for each
\* subject; no record parsed from a reply carries that tag.
C5_FallbackTagged ==
    \A p \in DOMAIN sentiment_recu :
        /\ sentiment_recu[p] = "fallback" =>
              /\ DOMAIN sentiment_marques[p] = {m.nom : m \in Elems(marques_detectees[p])}
              /\ DOMAIN sentiment_sources[p] = {src.nom : src \in Elems(sources_extraites[p])}
              /\ \A d \in {sentiment_marques[p], sentiment_sources[p]} :
                    \A nom \in DOMAIN d :
                        /\ d[nom].sentiment = "neutre"
                        /\ d[nom].confiance <= 30
                        /\ d[nom].methode_analyse = "fallback_basic"
        /\ sentiment_recu[p] = "reponse" =>
              \A d \in {sentiment_marques[p], sentiment_sources[p]} :
                  \A nom \in DOMAIN d : d[nom].methode_analyse # "fallback_basic"

\* C5 witness: one backend took the fallback path for a brand, another has a
\* record parsed from its reply.
C5_Witness ==
    /\ \E p \in DOMAIN sentiment_recu :
          sentiment_recu[p] = "fallback" /\ DOMAIN sentiment_marques[p] # {}
    /\ \E p \in DOMAIN sentiment_recu :
          sentiment_recu[p] = "reponse" /\ DOMAIN sentiment_marques[p] # {}

\* C6: for every subject of the consensus output of a run, the consensus score
\* lies between 0 and 1 and the vote counts of the three labels sum to the
\* number of voters.
C6_ConsensusBounds ==
    rapport_consolide.fait =>
        \A consensus \in {rapport_consolide.consensus_marques,
                          rapport_consolide.consensus_sources} :
            \A cle \in DOMAIN consensus :
                /\ consensus[cle].consensus_score[2] > 0
                /\ 0 <= consensus[cle].consensus_score[1]
                /\ consensus[cle].consensus_score[1] <= consensus[cle].consensus_score[2]
                /\ SommeDistribution(consensus[cle].distribution)
                       = consensus[cle].total_providers

\* C6 witness: a brand on which two backends disagree, and a source with a
\* consensus entry.
C6_Witness ==
    /\ rapport_consolide.fait
    /\ \E cle \in DOMAIN rapport_consolide.consensus_marques :
          rapport_consolide.consensus_marques[cle].consensus_score = <<1, 2>>
    /\ DOMAIN rapport_consolide.consensus_sources # {}

\* C7: on a non-empty dict, the winning sentiment has the largest vote count
\* of the three labels, votes is that count and consensus_score is that count
\* over the number of voters; two positive votes and one negative vote give
\* positive with 2/3.
C7_MajorityWinner ==
    (majoritaire # NonCalcule /\ votes # <<>>) =>
        /\ majoritaire.sentiment \in Sentiments
        /\ \A s \in Sentiments : NbVotes(s) <= NbVotes(majoritaire.sentiment)
        /\ majoritaire.votes = NbVotes(majoritaire.sentiment)
        /\ majoritaire.total_providers = Len(votes)
        /\ majoritaire.consensus_score = <<NbVotes(majoritaire.sentiment), Len(votes)>>
        /\ (NbVotes("positif") = 2 /\ NbVotes("negatif") = 1 /\ Len(votes) = 3) =>
              /\ majoritaire.sentiment = "positif"
              /\ majoritaire.consensus_score = <<2, 3>>

\* C7 witness: two positive votes and one negative vote were counted.
C7_Witness ==
    /\ majoritaire # NonCalcule
    /\ Len(votes) = 3
    /\ NbVotes("positif") = 2
    /\ NbVotes("negatif") = 1

\* C8: among the labels that tie for the largest vote count the winner is the
\* first of positive, neutral, negative, and every order of the same entries
\* gives the same winner.
C8_TieBreak ==
    (majoritaire # NonCalcule /\ votes # <<>>) =>
        /\ \A i \in 1..Len(SentimentOrder) :
              (\A s \in Sentiments : NbVotes(s) <= NbVotes(SentimentOrder[i]))
                  => \E j \in 1..i : majoritaire.sentiment = SentimentOrder[j]
        /\ \A autre \in Ordres(votes) :
              calculer_sentiment_majoritaire(autre).sentiment = majoritaire.sentiment

\* C8 witness: one neutral vote supplied before one positive vote.
C8_Witness ==
    /\ majoritaire # NonCalcule
    /\ Len(votes) = 2
    /\ votes[1].data.sentiment = "neutre"
    /\ votes[2].data.sentiment = "positif"
    /\ majoritaire.sentiment = "positif"

\* C9: every consolidated brand or source for which at least one backend
\* produced a sentiment record has an entry in the consensus output, with one
\* voter and score 1 when exactly one backend produced a record.
C9_ConsensusEntry ==
    rapport_consolide.fait =>
        /\ \A i \in 1..Len(rapport_consolide.toutes_marques) :
              LET cle == rapport_consolide.toutes_marques[i].cle
                  votants == Votants(sentiment_marques, cle)
              IN  votants # {} =>
                      /\ cle \in DOMAIN rapport_consolide.consensus_marques
                      /\ Cardinality(votants) = 1 =>
                            /\ rapport_consolide.consensus_marques[cle].total_providers = 1
                            /\ rapport_consolide.consensus_marques[cle].consensus_score
                                   = <<1, 1>>
        /\ \A i \in 1..Len(rapport_consolide.toutes_sources) :
              LET cle == rapport_consolide.toutes_sources[i].cle
                  votants == VotantsSource(cle)
              IN  votants # {} =>
                      /\ cle \in DOMAIN rapport_consolide.consensus_sources
                      /\ Cardinality(votants) = 1 =>
                            /\ rapport_consolide.consensus_sources[cle].total_providers = 1
                            /\ rapport_consolide.consensus_sources[cle].consensus_score
                                   = <<1, 1>>

\* C10: every entry of the consensus output has at least one voter, and a
\* consolidated subject under whose key no backend holds a sentiment record has
\* no entry.
C10_NoEmptyConsensus ==
    rapport_consolide.fait =>
        /\ \A i \in 1..Len(rapport_consolide.toutes_marques) :
              LET cle == rapport_consolide.toutes_marques[i].cle
              IN  Votants(sentiment_marques, cle) = {} =>
                      cle \notin DOMAIN rapport_consolide.consensus_marques
        /\ \A i \in 1..Len(rapport_consolide.toutes_sources) :
              LET cle == rapport_consolide.toutes_sources[i].cle
              IN  Votants(sentiment_sources, cle) = {} =>
                      cle \notin DOMAIN rapport_consolide.consensus_sources
        /\ \A consensus \in {rapport_consolide.consensus_marques,
                             rapport_consolide.consensus_sources} :
              \A cle \in DOMAIN consensus : TotalVoters(consensus[cle]) >= 1

\* C10 witness: a consolidated brand without any sentiment record, absent from
\* the consensus of the brands, in a run whose sources have a consensus.
C10_Witness ==
    /\ rapport_consolide.fait
    /\ \E i \in 1..Len(rapport_consolide.toutes_marques) :
          /\ Votants(sentiment_marques, rapport_consolide.toutes_marques[i].cle) = {}
          /\ rapport_consolide.toutes_marques[i].cle
                 \notin DOMAIN rapport_consolide.consensus_marques
    /\ DOMAIN rapport_consolide.consensus_sources # {}

\* C11: the consolidated source list holds exactly one record per normalized
\* URL (casing, trailing slash and tracking parameters aside), and that record
\* lists the backends whose list holds the page.
C11_OneRecordPerUrl ==
    Consolidee("url") =>
        LET toutes == consolidation.toutes_entites
        IN  /\ \A i, j \in 1..Len(toutes) :
                  UrlCanonique(toutes[i].cle) = UrlCanonique(toutes[j].cle) => i = j
            /\ \A p \in DOMAIN consolidation.entites_par_provider :
                  \A k \in 1..Len(consolidation.entites_par_provider[p]) :
                      \E i \in 1..Len(toutes) :
                          UrlCanonique(toutes[i].cle) =
                              UrlCanonique(consolidation.entites_par_provider[p][k].url)
            /\ \A i \in 1..Len(toutes) :
                  LET MemePage(source) ==
                          UrlCanonique(source.url) = UrlCanonique(toutes[i].cle)
                  IN  Elems(toutes[i].providers_detection) = Contributeurs(MemePage)

\* C12: no two records of the consolidated brand list have the same canonical
\* name; the record of a name lists every backend that reported a name with
\* that canonical form, and its mention count is the sum of the mention counts
\* of the merged records.
C12_OneRecordPerName ==
    Consolidee("nom") =>
        LET toutes == consolidation.toutes_entites
            detectees == ToutesLesListes(consolidation.ordre,
                                         consolidation.entites_par_provider)
        IN  /\ \A i, j \in 1..Len(toutes) :
                  _normaliser_nom_marque(toutes[i].cle)
                      = _normaliser_nom_marque(toutes[j].cle) => i = j
            /\ \A i \in 1..Len(toutes) :
                  LET MemeNom(marque) ==
                          _normaliser_nom_marque(marque.nom)
                              = _normaliser_nom_marque(toutes[i].cle)
                  IN  /\ Elems(toutes[i].providers_detection) = Contributeurs(MemeNom)
                      /\ toutes[i].entite.mentions = SommeMentions(detectees, MemeNom)


\* C13: whatever the order in which the results of the backends are supplied,
\* _consolider_entites gives the same set of records (same fields, same
\* contributing backends) and _calculer_consensus_entites the same consensus
\* for every subject.
C13_OrderIndependent ==
    consolidation.pc # "entites" =>
        \A autre \in Ordres(consolidation.ordre) :
            LET toutes == _consolider_entites(autre, consolidation.entites_par_provider,
                                              consolidation.key_field)
            IN  /\ Canoniques(toutes) = Canoniques(consolidation.toutes_entites)
                /\ consolidation.pc = "fait" =>
                      _calculer_consensus_entites(autre,
                          consolidation.sentiments_par_provider, toutes)
                          = consolidation.consensus

\* C14: _nettoyer_url, _clean_url and _normaliser_nom_marque are idempotent:
\* normalising the result of a normalisation gives that result.
C14_Idempotent ==
    normalisation.pc = "deux_fois" => normalisation.deux_fois = normalisation.une_fois

\* C15: in the cascade of one provider the prompt of tier 2 is sent exactly
\* when the initial parsing found fewer than 2 URLs, and the prompt of tier 3
\* exactly when tiers 1 and 2 found no URL; over a run the number of tier-2
\* prompts is the number of providers whose initial parsing found fewer than
\* 2 URLs (two, when one of three providers gives 5 exploitable URLs
\* directly and the two others need tier 2).
C15_Tier2And3Prompts ==
    /\ cascade.pc \in {"tier1", "tier2"} => ~Envoye(2)
    /\ cascade.pc \in {"tier1", "tier2", "tier3"} => ~Envoye(3)
    /\ cascade.pc \notin {"tier1", "tier2"} =>
          /\ Envoye(2) <=> NbParTier(cascade.sources, "parsing_initial") < 2
          /\ Cardinality({k \in 1..Len(cascade.prompts) : cascade.prompts[k].tier = 2}) <= 1
    /\ cascade.pc \notin {"tier1", "tier2", "tier3"} =>
          /\ Envoye(3) <=> /\ NbParTier(cascade.sources, "parsing_initial") = 0
                           /\ NbParTier(cascade.sources, "demande_explicite") = 0
          /\ Cardinality({k \in 1..Len(cascade.prompts) : cascade.prompts[k].tier = 3}) <= 1
    /\ cascade.bilan.prompts_tier2 = cascade.bilan.besoin_tier2
    /\ (cascade.pc = "fait" /\ cascade.i = 3 /\ cascade.bilan.directs = 1
        /\ cascade.bilan.besoin_tier2 = 2) => cascade.bilan.prompts_tier2 = 2

\* three providers answered, one gave 5 exploitable URLs directly and the two
\* others needed tier 2
C15_Witness ==
    /\ cascade.pc = "fait"
    /\ cascade.i = 3
    /\ cascade.bilan.directs = 1
    /\ cascade.bilan.besoin_tier2 = 2
    /\ cascade.bilan.prompts_tier2 = 2

\* C16: the prompts of one cascade are sent in the order of the tiers; the
\* prompt of tier 4 is sent exactly when the validation of the candidates of
\* tiers 1 to 3 leaves fewer than 2 exploitable URLs; and no prompt is sent
\* once the candidates of the cascade hold 2 exploitable URLs.
C16_StopAtTwoExploitable ==
    [][/\ \A k, l \in 1..Len(cascade'.prompts) :
             k < l => cascade'.prompts[k].tier < cascade'.prompts[l].tier
       /\ cascade'.pc \in {"dedup", "fait"} =>
             ((\E k \in 1..Len(cascade'.prompts) : cascade'.prompts[k].tier = 4)
              <=> Cardinality(ExploitablesDistinctes(cascade'.sources)) < 2)
       /\ Len(cascade'.prompts) > Len(cascade.prompts) =>
             /\ Cardinality(ExploitablesDistinctes(cascade.sources)) < 2
             /\ Len(cascade.sources_validees) < 2]_vars

\* a cascade that asked for sources at tier 2 and stopped there, with 2
\* exploitable URLs
C16_Witness ==
    /\ cascade.pc = "fait"
    /\ Len(cascade.prompts) = 1
    /\ cascade.prompts[1].tier = 2
    /\ Len(cascade.sources_finales) >= 2

\* C17: within the cascade of one provider, each tier keeps the candidates of
\* the earlier tiers and adds its own after them, and the number of distinct
\* exploitable URLs the cascade holds never decreases from one step to the
\* next, the final list included.
C17_Monotone ==
    [][cascade'.i = cascade.i =>
          /\ cascade.pc \in {"tier2", "tier3"} =>
                EstPrefixe(cascade.sources, cascade'.sources)
          /\ cascade.pc = "tier4" =>
                /\ cascade'.sources = cascade.sources
                /\ EstPrefixe(cascade.sources_validees, cascade'.sources_validees)
          /\ Cardinality(Tenues(cascade')) >= Cardinality(Tenues(cascade))
          /\ Tenues(cascade) \subseteq Tenues(cascade')]_vars

\* a cascade whose tier 4 added an exploitable URL to the one of tier 1 and
\* another instance of that one, which the final deduplication merged
C17_Witness ==
    /\ cascade.pc = "fait"
    /\ \E k \in 1..Len(cascade.prompts) : cascade.prompts[k].tier = 4
    /\ NbParTier(cascade.sources_validees, "parsing_initial") >= 1
    /\ NbParTier(cascade.sources_validees, "demande_specifique") >= 1
    /\ Len(cascade.sources_finales) < Len(cascade.sources_validees)

\* C18: a follow-up of tier 2, 3 or 4 whose call raises or gives nothing adds
\* no candidate and the cascade goes on to its next step; the cascade then
\* returns a list that holds every exploitable URL the validation kept from
\* the earlier tiers.
C18_FailedTierAddsNothing ==
    [][/\ (/\ Len(cascade'.prompts) > Len(cascade.prompts)
           /\ cascade'.prompts[Len(cascade'.prompts)].issue # "reponse") =>
              /\ cascade'.sources = cascade.sources
              /\ cascade'.sources_validees = cascade.sources_validees
              /\ cascade'.pc = CASE cascade.pc = "tier2" -> "tier3"
                                 [] cascade.pc = "tier3" -> "valider"
                                 [] cascade.pc = "tier4" -> "dedup"
       /\ cascade'.pc = "fait" =>
              ExploitablesDistinctes(cascade'.sources)
                 \subseteq {cascade'.sources_finales[k].url :
                               k \in 1..Len(cascade'.sources_finales)}]_vars

\* a cascade whose tier-2 call failed and that returned the source of tier 1
C18_Witness ==
    /\ cascade.pc = "fait"
    /\ \E k \in 1..Len(cascade.prompts) :
          cascade.prompts[k].tier = 2 /\ cascade.prompts[k].issue # "reponse"
    /\ \E k \in 1..Len(cascade.sources_finales) :
          cascade.sources_finales[k].methode_extraction = "parsing_initial"

C20_ScoresInRange ==
    /\ \A sources \in {ToutesSources(etude.llm_responses), etude.verified_sources} :
          \A k \in 1..Len(sources) :
             /\ 0 <= sources[k].extraction_confidence
             /\ sources[k].extraction_confidence <= 100
             /\ 0 <= sources[k].reliability_score
             /\ sources[k].reliability_score <= 100
    /\ \A sentiments \in {sentiment_marques, sentiment_sources} :
          \A p \in DOMAIN sentiments : \A nom \in DOMAIN sentiments[p] :
             0 <= sentiments[p][nom].confiance /\ sentiments[p][nom].confiance <= 100

\* C21: a run started with an empty question ends with an error and no
\* provider is queried in it.
C21_EmptyQuestionRejected ==
    question = QuestionVide =>
        /\ DOMAIN issues = {}
        /\ pc = "retour" => retour = "erreur"

\* C22: the result every run returns holds a contribution count for each
\* provider that was queried, whether it answered or failed.
C22_CountForEveryQueried ==
    (pc = "retour" /\ retour = "resultats") =>
        /\ statistiques.fait
        /\ DOMAIN statistiques.extraction_performance = DOMAIN issues

\* the stages of a run in which a provider is sent a prompt
Etapes == {"initial", "tier2", "tier3", "tier4", "sentiment"}

\* the prompts of one stage sent to a provider
NbEnvois(p, etape) ==
    Cardinality({k \in 1..Len(envois.log[p]) : envois.log[p][k].etape = etape})

\* C23: in one run a provider is sent at most one prompt per stage (initial
\* query, tier 2, tier 3, tier 4, sentiment), also after a call that failed,
\* and a provider outside the available ones is sent nothing.
C23_OnePromptPerStage ==
    \A p \in Providers :
        /\ \A etape \in Etapes : NbEnvois(p, etape) <= 1
        /\ p \notin envois.disponibles => envois.log[p] = <<>>

\* a finished run in which a provider got all five prompts, two of its
\* follow-ups failed, and another provider was not available
C23_Witness ==
    /\ envois.pc = "fait"
    /\ \E p \in envois.disponibles :
          /\ \A etape \in Etapes : NbEnvois(p, etape) = 1
          /\ \E k \in 1..Len(envois.log[p]) :
                envois.log[p][k].etape = "tier2" /\ envois.log[p][k].issue = "raise"
          /\ \E k \in 1..Len(envois.log[p]) :
                envois.log[p][k].etape = "tier3" /\ envois.log[p][k].issue = "vide"
    /\ \E p \in Providers \ envois.disponibles : envois.log[p] = <<>>

\* the path of the URL that was classified, as the function reads it
CheminClasse == Lower(urlparse(invocation.url).path)

\* the paths the classification refuses: empty, the root, an index or home
\* page, a contact page or legal boilerplate, or shorter than 3 characters
CheminRefuse ==
    \/ CheminClasse \in {<<>>, <<"/">>, <<"/", "index">>}
    \/ IsSubstring(<<"/", "contact">>, CheminClasse)
    \/ IsSubstring(<<"/", "conditions">>, CheminClasse)
    \/ Longueur(CheminClasse) < 3

\* the paths with an informational keyword or at least 2 segments
CheminInformatif ==
    \/ \E mot \in {"guide", "2024"} :
          mot \in {CheminClasse[i] : i \in 1..Len(CheminClasse)}
    \/ NbSegments(CheminClasse) >= 2

\* the query holds a tracking parameter
AvecTracking ==
    "utm_source" \in {invocation.url[i] : i \in 1..Len(invocation.url)}

\* C24 as stated: a URL with a refused path is not exploitable, and a URL is
\* exploitable only when its path holds a keyword or at least 2 segments.
C24_ExploitableOnlyIfInformative ==
    invocation.pc = "retour" =>
        /\ CheminRefuse => ~invocation.resultat[1]
        /\ invocation.resultat[1] => CheminInformatif

\* C24, amended: a URL with a refused path is not exploitable, and every other
\* URL is exploitable unless its query holds a tracking parameter, whether or
\* not its path holds a keyword or 2 segments.
C24_ExploitableUnlessRefused ==
    invocation.pc = "retour" =>
        /\ CheminRefuse => ~invocation.resultat[1]
        /\ (~CheminRefuse /\ ~AvecTracking) => invocation.resultat[1]
        /\ AvecTracking => ~invocation.resultat[1]

\* a URL of one segment without keyword was classified exploitable
C24_Witness ==
    /\ invocation.pc = "retour"
    /\ invocation.url = <<"https://", "a", ".", "fr", "/", "bank">>
    /\ invocation.resultat[1]

\* the Jaccard similarity of the label with subject i, as <<intersection, union>>
Jaccard(i) ==
    _similarite_noms(Lower(invocation.nom_recherche), Lower(invocation.entites[i].nom))

\* the similarity reaches the threshold of 0.8
AtteintSeuil(sim) == 10 * sim[1] >= 8 * sim[2]

\* the subjects whose name equals the label, case-insensitively
SujetsExacts ==
    {i \in 1..Len(invocation.entites) :
        Lower(invocation.entites[i].nom) = Lower(invocation.nom_recherche)}

\* C25: a block is attached to the subject whose name equals its label when
\* there is one; otherwise to the subject of highest Jaccard similarity when
\* that similarity reaches 0.8; otherwise to no subject.  It is never attached
\* to a subject whose similarity is below the threshold.
C25_AttachedByNameOrJaccard ==
    invocation.pc = "retour" =>
        LET r == invocation.resultat
            proches == {i \in 1..Len(invocation.entites) : AtteintSeuil(Jaccard(i))}
        IN  /\ SujetsExacts # {} => r \in SujetsExacts
            /\ (SujetsExacts = {} /\ proches # {}) =>
                   /\ r \in proches
                   /\ \A i \in 1..Len(invocation.entites) :
                         Jaccard(i)[1] * Jaccard(r)[2] <= Jaccard(r)[1] * Jaccard(i)[2]
            /\ (SujetsExacts = {} /\ proches = {}) => r = 0
            /\ (r # 0 /\ r \notin SujetsExacts) => AtteintSeuil(Jaccard(r))

\* C26: the entity_type of a brand depends only on the 150 characters before
\* and after its mention: two response texts with the same window give the
\* brand the same type.
C26_TypeDependsOnWindow ==
    invocation.pc = "retour" =>
        (invocation.marques[1].contexte = invocation.marques[2].contexte
            => invocation.marques[1].type_entite = invocation.marques[2].type_entite)

\* a URL without scheme that starts with www., completed with https://
AvecScheme(url) ==
    IF StartsWith(url, <<"www", ".">>) THEN <<"https://">> \o url ELSE url

\* the URLs the validation is to keep: well-formed once completed, with a
\* domain that is no shortener, no result page of a search engine, and no page
\* of a social network other than an official page
AGarder(url) ==
    LET complet == AvecScheme(url)
        domaine == _extract_domain(complet)
        chemin == Lower(urlparse(complet).path)
    IN  /\ _is_valid_url(complet)
        /\ domaine \notin shortener_domains
        /\ ~(domaine \in {<<e, ".", "com">> : e \in {"google", "bing", "yahoo"}}
             /\ StartsWith(chemin, <<"/", "search">>))
        /\ \/ domaine \notin {<<s, ".", "com">> :
                                 s \in {"facebook", "twitter", "instagram", "linkedin"}}
           \/ \E official \in {"company", "official", "pages"} :
                 IsSubstring(<<"/", official, "/">>, chemin)

\* C27: the validation keeps a source if and only if its URL is to be kept (a
\* www. URL without scheme being completed, not dropped), and returns the kept
\* sources in descending order of extraction_confidence.
C27_KeepsExactlyValidSources ==
    invocation.pc = "retour" =>
        /\ {invocation.validated[k].url : k \in 1..Len(invocation.validated)}
             = {AvecScheme(invocation.sources[k].url) :
                   k \in {j \in 1..Len(invocation.sources) :
                             AGarder(invocation.sources[j].url)}}
        /\ \A k \in 1..(Len(invocation.validated) - 1) :
              invocation.validated[k].extraction_confidence
                  >= invocation.validated[k + 1].extraction_confidence

\* the cases that were created and not deleted
CasExistants == DOMAIN case_studies_dir.objets

\* the existing cases whose last save had the status COMPLETED
CasTermines ==
    {id \in CasExistants :
        case_studies_dir.sauvegardes[id].status = StatusValue("COMPLETED")}

\* C28: the statistics count every existing case exactly once: total_cases is
\* the number of cases created and not deleted, active_cases + completed_cases
\* is total_cases, and the cases saved with the status COMPLETED are counted
\* as completed and not as active.
C28_EveryCaseCountedOnce ==
    case_studies_dir.dernier.op = "stats" =>
        LET stats == case_studies_dir.dernier.stats
        IN  /\ stats.total_cases = Cardinality(CasExistants)
            /\ stats.active_cases + stats.completed_cases = stats.total_cases
            /\ stats.completed_cases = Cardinality(CasTermines)
            /\ stats.active_cases = Cardinality(CasExistants \ CasTermines)

\* C29: load_case_study(id) returns the case with the status and the counter
\* of the most recent save of that id, and nothing once delete_case_study(id)
\* has returned true.
C29_LoadReturnsLastSave ==
    case_studies_dir.dernier.op = "load" =>
        LET id == case_studies_dir.dernier.id
        IN  /\ id \in CasExistants =>
                  /\ case_studies_dir.dernier.ok
                  /\ _serialize_case_study(case_studies_dir.dernier.case_study)
                       = case_studies_dir.sauvegardes[id]
            /\ id \in case_studies_dir.supprimes => ~case_studies_dir.dernier.ok

\* the domain of the URL is one of the exclusion list, or a subdomain of one
DomaineExclu(url) ==
    LET domaine == Lower(urlparse(url).netloc)
    IN  \E exclu \in excluded_domains :
           /\ Len(domaine) >= Len(exclu)
           /\ SubSeq(domaine, Len(domaine) - Len(exclu) + 1, Len(domaine)) = exclu
           /\ Len(domaine) > Len(exclu) => domaine[Len(domaine) - Len(exclu)] = "."

\* C30: every source the validation keeps and every source that
\* extraire_urls_depuis_reponse returns is marked exploitable and has a domain
\* outside the exclusion list, whatever tier found it.
C30_OnlyExploitableReturned ==
    \A liste \in {cascade.sources_validees, cascade.sources_finales} :
        \A k \in 1..Len(liste) :
            /\ liste[k].exploitable_seo
            /\ _est_url_exploitable_seo(liste[k].url)[1]
            /\ ~DomaineExclu(liste[k].url)

\* a finished cascade whose candidates held a home page and a URL of an
\* excluded domain, and which returned a source
C30_Witness ==
    /\ cascade.pc = "fait"
    /\ \E k \in 1..Len(cascade.sources) : cascade.sources[k].url = UrlAccueil
    /\ \E k \in 1..Len(cascade.sources) : cascade.sources[k].url = UrlExclue
    /\ cascade.sources_finales # <<>>
    /\ \A k \in 1..Len(cascade.sources_finales) :
          cascade.sources_finales[k].url \notin {UrlAccueil, UrlExclue}

====
